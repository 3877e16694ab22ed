# A TLA+ verification of Eraser

Eraser removes unused images from the nodes of a Kubernetes cluster. A manager
(`main.go`, `controllers/`) creates one *eraser pod* per node; the containers of
the pod (`pkg/`) list the images of their node, scan them, and delete those that
are to go. This directory holds TLA+ models of both halves, TLC configurations
that check them on small instances, and TLAPS proofs of what matters most.

Run, in this directory: `tlc -config X.cfg MCModule` for a model-checking run of
the table below (module `Scheduling` is its own), and `tlapm M.tla` for the proofs
of the modules `*Proofs`. `PROJECT.json` maps every definition to the lines it
models, and gives for every property a mutated definition under which the property
fails.

## 1. The system

| Component | State | Operations | Interacts with |
|---|---|---|---|
| imagejob controller (`controllers/imagejob`) | none of its own: the `ImageJob` status, the pods, informer caches, its workqueue and one worker | `handleNewJob` (status update, one pod per selected node, polls), `handleRunningJob` (counts pods, verdict) | reads caches, writes to the API server; woken by watch events |
| imagelist controller (`controllers/imagelist`) | the `ImageList` object and the job it owns, its workqueue and requeue timer | creates ConfigMap, job and template; copies the counters; sets and awaits the deletion time | owns manual jobs |
| imagecollector controller (`controllers/imagecollector`) | timers (repeat interval, deletion delay) | first reconcile (clean-up), creates a job and its template, deletes both when finished | owns collector jobs |
| configuration (`main.go`, `controllers/configmap`) | the configuration in force behind a lock, a file watch and its loop | load, reload; restart when other components are enabled; a prompt to the kubelet between jobs | all controllers read it |
| configuration versions (`api`) | - | defaults, decoding, conversion to the unversioned form and back | what `main.go` loads |
| collector (`pkg/collector`) | the list of images | list, filter, send, wait for the remover | named pipes |
| scanner (`pkg/scanners`) | non-compliant and failed images, a total timeout | receive, scan, send, finish | named pipes |
| remover (`pkg/remover`) | the target list, what it has deleted, a counter | list, delete targets, prune, report | named pipes, the container runtime |
| utilities (`pkg/utils`), runtime clients (`pkg/cri`), metrics, logging | - | image maps, exclusion, pipes | used by the three containers |

What is hard about it:

* **Stale reads.** The controller decides on informer caches and writes to the
  server. A job it sees as new may be running; pods it just created may not be in
  the cache; a status update may conflict, fail, or take effect and report an error.
* **Lost wake-ups.** A running job is looked at when a pod event names it.
* **Partial failure.** Job and template are created by two calls, pods by one call
  each, images deleted one by one.
* **Two owners.** The imagecollector lists the jobs of both owners, so both may set
  the deletion time of one job and delete it. Its repeat interval lives in one delayed
  key of its workqueue.
* **Restarts.** The templates belong to the manager's pod: when it is replaced,
  the garbage collector takes the templates, and with them the pods.
* **Four pipes, three processes.** Each open blocks until the other end opens, each
  container may die at any point, and one end makes the pipe while the other looks
  for it.
* **Late configuration.** A change passes through the ConfigMap, the kubelet, a file
  watch that is lost with every change, and a loop; it may come while the manager
  starts, while a job runs, or in a form that cannot be read.
* **Time of check, time of use.** Images and containers are listed once and deleted
  later, while the kubelet and a second remover change the node.

`PROJECT.json` lists these under `hazards`, each at its line, with the properties
that are aimed at it, or the reason why none is.

## 2. The modules

| Module | What it models |
|---|---|
| `ImageJob` | the imagejob controller with API server, informers, queue, owners, kubelets and restarts |
| `JobLifecycle` | abstract: what an owner of jobs may rely on |
| `ImageJobProofs`, `CompletionProofs` | theorems of `ImageJob`; it implements `JobLifecycle` |
| `Scheduling` | the imagecollector and imagelist controllers, side by side, over abstract jobs |
| `SchedulingProofs` | theorems of `Scheduling` |
| `NodeImages` | the images of a node, their names, what is in use, what is excluded |
| `Exclusion` | the entries of the exclusion lists and the strings they hit |
| `NodeExclusion` | the removers of a node under the exclusion lists of the cluster: `Remover` and `Exclusion` in one |
| `ExclusionProofs` | theorems of `Exclusion` and `NodeExclusion` |
| `Remover` | the removers of one node, call by call, beside the kubelet |
| `RemoverProofs` | theorems of `Remover` |
| `Pipeline` | the three containers of a collector pod and their pipes |
| `PipelineProofs` | theorems of `Pipeline` |
| `UnversionedConfig` | the configuration the controllers read; decoding over defaults |
| `ConfigV1alpha1`, `ConfigV1alpha2`, `ConfigV1alpha3` | the versions of the file: fields, defaults, conversions |
| `ConfigFile` | what the manager makes of a document; how a document is moved to the next version |
| `ConfigReload` | how a change of the ConfigMap reaches the controllers |
| `ConfigProofs`, `MigrationProofs` | theorems of `ConfigReload` and of the versions |
| `MCImageJob`, `MCRemover`, `MCPipeline`, `MCConfigReload` | the small instances for TLC |

How they fit: `Scheduling` creates the jobs whose life `ImageJob` models and
`JobLifecycle` promises; a pod of `ImageJob` is an instance of `Pipeline`, whose
outcome is the pod's phase; the removal step of `Pipeline` is `Remover`, whose
exclusion set is what `Exclusion` computes (`NodeExclusion` puts the two together);
`ConfigReload` starts and ends the process that `ImageJob` and `Scheduling` call
`Restart`.

### ImageJob

`versions[j]` and `podLog[p]` are the histories of the API objects; the last
element is the object as it is now, and an informer cache is a *position* in the
history (`jobCache`, `podCache`), which a watch event moves forward (`SyncJob`,
`SyncPod`, with the predicates of `add` deciding whether a job is queued). So a
read is as stale as it can be in the program, but never goes back, and the
optimistic concurrency of a status update is a comparison of two positions
(`UpdateAccepted`).

`handleNewJob` and `handleRunningJob` are split where they call the server, since
everything else in the cluster may move there: `ReconcileNew`/`ReconcileRunning`
read the cache and decide; `UpdateStatus`, `UpdateConflicts` and `UpdateFails` are
the outcomes of the update; `CreatePod`/`CreatePodFails` create one pod each;
`StopPolling` and `PodsPolled` are the polls. `Restart` loses the worker and the
queue and rebuilds caches from the objects. `ReconcileNothing` is the path of
phases that need nothing. The list of pods has no determined order, so
`podsComplete`, which answers for the first active pod, is two predicates
(`MayBeComplete`, `MayBeIncomplete`) that may both hold.

The owners are in the module as far as a job sees them: `CreateJob`,
`CreateTemplate` (a separate call), `SetDeleteAfter`, `DeleteJob`,
`DeleteTemplate`. An owner creates a job when its cache shows none (or it has just
deleted those it shows), so that two jobs of one type may run side by side, and each
counts the pods of both. Selectors, taints, environment and the spec of the pod are left
out; the node filter is the set of `Matching` nodes.

`JobLifecycle` is the promise: a job starts once, has at most one pod per node and
none before it starts, is `Completed` only if the pod of every selected node
succeeded (when the success ratio is above zero and no other job of its type was
created: pods are counted by type), and keeps its verdict. The refinement maps `phase`
to the current version, `placed` to the number of pods born per node and `succeeded` to the nodes
whose pod has ever succeeded.

### Scheduling

A job is only its phase, its owner, the generation of the list it was made for and
whether it has a deletion time; what makes it start and end is `ImageJob`, here two
steps (`StartJob`, which needs the template, and `FinishJob`; a job whose template
is gone fails and gets its deletion time at once). `seen` is the informer cache,
one version per job, moved by `Created`, `Updated` and `Gone`; a job that has been
deleted stays in `deleted` until the cache knows.

`worker[c]` is a controller: the keys queued, the keys delayed (`RequeueAfter` and
retries: `Again`), and what the worker has in hand between two calls. The reconcile
loops are `CollectorReconciles`, `Purge` (the first reconcile, which deletes every
job it has cached) and `ListReconciles`. What both controllers do with a job -
`CreateJob` and `CreateTemplate`, `HandleFinished` with `SetDeleteAfter` and
`DeleteJob`, `DropTemplate` - is written once, with the differences of the two as
conjuncts on `c`. Each call to the server has its failure (`Breaks`), with the end
of the reconcile the code gives it: an error is retried, a logged error is not.

Durations are not modelled: a timer fires, and a deletion time passes, at any
moment. So `timeRemaining <= 0` (requeue at once) and `> 0` are one case. The name
of a new job is any free one, as `GenerateName` gives it; TLC takes the first.

### NodeImages and Remover

`NodeImages` abstracts strings: an image has an ID and a set of names and digests,
which no two images share, and `Excluded` is the set of strings that an exclusion
entry hits. `IsExcluded` keeps the code's asymmetry: it
looks up the names of an image only when it is given the ID. Containers are taken
to name their image by ID, as the CRI returns it to `GetRunningImages`.

`Remover` has one step per call: `ListImages`, `ListContainers`, then for each
entry of the list `PassTarget`, `DeleteTarget` or `TargetFails`, then, if `*` was in
the list, one visit of every key of `nonRunningImages` in any order
(`PrunePasses`, `PruneDeletes`, `PruneFails`). Any number of removers run beside
`Pull`, `CreateContainer` and `RemoveContainers`. `erased`, `spared` and `late` are
history variables: nothing in the program reads them.

### Exclusion

A string is a sequence of pieces, of which `/`, `:` and `*` are three. `Matches` is
the code's: an entry that ends in `/*` is cut at its first `*`, one that ends in
`:*` at its first `:`, and the text must begin with what is left. `ParseExcluded` is
the way of the entries from labelled ConfigMaps: the first JSON file of each counts.
`Covers` is what a user means: the entry itself, or all that begins like it.
`NodeExclusion` gives each ID, name and digest its string (`Text`) and has the removers
work with what the entries hit (`HitByEntries`); `MCRemover` chooses the strings, among
them a registry with a port.

### The configuration

A document is `[apiVersion, body]`, its body one record per section with the fields
it gives. `Decode` lays it over the defaults field by field, as the YAML decoder
does, the text behind a pointer included. The module of each version has the fields
of its structs, its defaults, the unmarshalling of the runtime, and the two
conversions; a conversion is the set of fields the generated function of each struct
copies, and what is converted by hand (the section `eraser` of v1alpha1, the runtime
of both old versions). Durations are hours, a ratio a percentage, a quantity or an
image a string. `Migrated` is what a user does to follow the versions; it is external
and is there for the property about it.

In `ConfigReload`, `Edit` changes the ConfigMap and wakes the configmap controller
(`Check`, `Annotate`, `AnnotateFails`), which prompts the kubelet; `Sync` is the
kubelet's replacement of the file, which it also does unprompted. It ends the
watch and leaves two events, of which the loop handles one by loading
(`HandleDelete`, `Update`, `Compare`), the other by setting the watch again
(`HandleIgnored`). The start of the process is `Start`, `Watch` and `SetUp`; the loop
runs from `Watch` on, so a change can fall before the controllers are set up. `missed`
is a history variable: the file was replaced while nothing watched it, and no event
since has had it read.

### Pipeline

Each container is the list of its steps in program order (`CollectorSteps`,
`ScannerSteps`, `RemoverSteps`): make, open, write or read a pipe, or work. The
steps of pipes are shared actions; what differs between containers is in
`PipeIsMissing` (who waits for a pipe to appear), `Sends`, `WriteBreaks` and
`Accepts`. `OpenPipe` is a joint step of both ends. A write carries the whole
list and closes the pipe; a writer that dies leaves `whole = FALSE`, which the
reader cannot decode. Scanning is image by image against an oracle
(`Vulnerable`), a failure may happen for every image, and `ScanEnds` includes the
total timeout. Deleting an image is one step with any outcome: what the outcomes
are is the subject of `Remover`. A pod of an `ImageList` has one container and no
pipes, hence no instance of this module.

## 3. The runs

| Run | Question | Instance |
|---|---|---|
| `job_safety` | Can staleness, a failed call, a lost pod, a restart or a deletion give a node a second pod, a pod to an unstarted job, a second or premature verdict, or an unearned `Completed`? Does the controller implement `JobLifecycle`? | 1 job, 2 nodes, 2 suffixes, a fault or a restart, 1 deletion |
| `job_recovers` | Is there always something left to have an unfinished job looked at? Do faults, a restart, a shared worker or a shared type keep a job from starting or finishing? | 1 node, and 2 manual jobs side by side with a restart, or 1 with 2 faults and a restart |
| `first_active_pod` | violated: a verdict means that no pod is at work in good health | 1 job, 2 nodes |
| `success_ratio` | violated: `Failed` means fewer successes than the ratio | 1 job, 2 nodes, ratio 1/2 |
| `scheduling_owners` | With a collection and a list job at once, or a restart with lost templates: are deletion times kept and waited for, is a finished job always awaited by its owner and does it go, has the collector always something that wakes it, do collections recur? | 3 names, one failed call of any kind, and either one update of the list or one restart |
| `list_update` | violated: every update of the ImageList gets a job | collector off, 2 updates, no fault |
| `remover_pair` | Do exclusion (from the ConfigMaps on), completeness of a prune, the count and images in use survive two removers and a busy node? | 2 removers, 2 images (3 keys), a target and a prune |
| `remover_exclusion` | violated: an excluded image is never deleted | 1 remover, lists with names |
| `pipeline_pod` | What is deleted and what an exit code means when containers die; with no fault, can all containers wait for each other, does the list arrive, can a pod hang unseen? | 4 images, 2 faults, all options |
| `pipeline_race` | violated: with no fault the containers run to completion | 4 images, no fault |
| `config_reload` | Is the accepted file in force whenever the loop is at rest, does every accepted change take effect with the right controllers, is a change put off by a job prompted later, does the manager stop restarting, is the configuration complete, and do documents keep their meaning from version to version? | 7 documents, 2 edits, 1 crash |
| `config_midjob` | violated: a change does not take effect while a job runs | 7 documents, 1 edit |

**Bounds.** Two nodes are what "on every node" and "the other node" need; two name
suffixes allow the second pod that `OnePodPerNode` forbids; two jobs are what
sharing the worker or the type of a job needs. `MaxFaults` and `MaxRestarts` bound
failed calls, lost pods and restarts (one of each is enough to reach every error
path; the proofs hold for any number), `MaxTroubles` both together, and `Mixed` says
whether there are faults beside several jobs: `job_safety` has one fault or one
restart, `job_recovers` two jobs or two faults, and a restart. `MaxDeletions` bounds
deletions, which the liveness of `job_recovers` does without, as a deleted job has
nothing to finish. In `scheduling_owners`, three names are a job of each owner and the
next one. `MaxChanges` bounds updates of the list and restarts together: each comes
with every failed call, but not both at once. In `config_reload`, two
edits are a change and another one on its heels, or a bad document and its repair;
the documents are one configuration in all three versions, one with a scanner and a
socket of its own, a runtime without a name, an unknown version, and a text that is
not YAML. In
`remover_pair`, `app` has a name, so the prune meets it twice, and is a target
before the prune; `base` is excluded under a digest only. In `pipeline_pod`, one
image is vulnerable, one clean, one cannot be scanned for want of a name, and one
is excluded; two faults allow a death on either side of a pipe.

**Symmetry** is used for suffixes, for nodes when the filter treats them alike, and
for removers, in runs of safety properties only.

**Deadlock** is not checked: every model stops when its bounded work is done, and a
pod with a dead container blocks. That nothing stops too early is what the
liveness properties say.

**Fairness.** In `ImageJob` the workqueue serves each job it holds, and the only
worker comes back to it after each round, hence strong fairness of `Reconcile(j)`
(it is disabled whenever the worker is busy); calls return and watch events are
delivered, hence weak fairness of `Proceed`, `ProceedPod` and the `Sync` actions.
Nothing is assumed of owners, faults or restarts. `JobFinishes` has the premise
`PodsEnd`: kubelets bring pods to an end, or to a failed container; `pipeline_pod`
shows it for pods without faults. For a job that is not alone of its type it has a
second premise, `Resyncs`, the informers' resync that client-go repeats every ten
hours, because without it the property is false: a pod event queues the job that owns
the pod, not the one whose listing contains it. `NewJobStarts` needs neither.

In `Scheduling`, workers, delayed keys and watches get on, the clock runs, and jobs
that have their template end (weak fairness of each); the first reconcile succeeds
in the end when it is retried for ever (strong fairness of `Purge`, which another
controller can disable by deleting a job first). Nothing is assumed of users,
restarts or failures. `FinishedJobsGo` has two premises, each a failure the code does
not recover from: an owner with two jobs (`OneJobEach`), which is an error for ever,
and a failed creation of a template or update of a deletion time (`Smooth`).
`CollectionRecurs` has them too, and the absence of an `ImageList`: with one, the
collector's key can be served for the list's job and lost.
In `Pipeline`, containers run, calls return, polls are repeated, and the kernel
completes an open when both ends wait: weak fairness of all steps but faults.
In `ConfigReload`, the kubelet syncs volumes and restarts the container, main, the
loop and the controller go on (weak fairness), and an update of the pod that is tried
for ever succeeds (strong fairness of `Annotate`, as a failure sends the key back to
`Check`). Nothing is assumed of users, crashes or jobs, which may run for ever.

### Where code and documentation disagree

The `violation` runs show six disagreements, listed under `findings`:

1. A job gets its verdict while pods of it are healthy and active
   (`imagejob_controller.go:439`).
2. The success ratio is compared after an integer division (`:282`).
3. Exclusion is looked up under the name the list gives, not under the image's
   other names (`utils.go:183`).
4. A remover that is faster than the collector's second `mkfifo` fails, and the
   other containers wait for ever (`remover.go:161`).
5. An update of the ImageList that is served while the finished job of the previous
   one waits for its deletion is forgotten (`imagelist_controller.go:219`).
6. The configuration changes while a job runs: the controller only holds back its
   prompt, and the kubelet syncs the file without one (`configmap.go:127`).

Modelling met more, which are hazards with a note: pods of an earlier job of the
type are counted (`imagejob_controller.go:209`), a scanner that cannot send its list
hangs the pod without a failed container (`trivy.go:124`), two names of one image
count as two removals (`helpers.go:86`), an image that is started after the
listing is deleted (`helpers.go:78`), two updates of an ImageList in quick succession
can create two jobs from one stale cache (`imagelist_controller.go:153`), the
repeat interval can be lost when a list job comes in between
(`imagecollector_controller.go:554`), a change of the configuration that comes while
the watch of the file is being renewed is not seen (`main.go:280`), and a pattern
`:*` is cut at the port of a registry (`utils.go:225`).

And some that no model has, for a reviewer of the code: the verdict divides by
`Desired`, which is zero for a job started with no node (`imagejob_controller.go:282`);
an exclusion file that the kubelet replaces between `ReadDir` and `ReadFile` counts as
no exclusions at all (`utils.go:310`); the loop that looks for the running pod of the
manager leaves out the last one (`configmap.go:150`); a default that is decoded into
through a pointer keeps the text of the previous document
(`api/v1alpha3/config/config.go:103`); settings that are read once stay stale after a
reload (`main.go:150`).

## 4. What is proved

All for every value of the constants: any number of jobs, nodes, faults, restarts
and deletions; any node, exclusion list, number of removers and lists.

**`ImageJobProofs`** - `TypeCorrect`, `AtMostOnePodPerNode`, `PodsFollowStatus`,
`VerdictStands`. None of the properties is inductive. The invariant `IInv` adds
`CachesBehind` (a cache is never ahead of the server), `WorkerUpdates` (while an
update is in flight, the version that was read is one the job had, and decides what
is written: `New` leads to `Running`, `Running` to a verdict) and `WorkerCreates`
(while pods are created, the job has started, and the nodes still to do have no
pod). The argument: an update succeeds only if the version read is the latest, so
a job leaves `New` once; pods are created only after that success; hence the loop
that creates them runs at most once per job, however often the job is reconciled.

**`CompletionProofs`** - `CompletedIsEarned`, `VerdictsWait`, `LifecycleIsImplemented`,
`JobsAreRemembered`.
Every step is first sorted by what it does (`Effects`): it publishes a version, moves
a pod, places a pod, or changes what the worker knows. The invariant `CInv` says that
pods are on selected nodes, that a job runs with the counters it started with, and
that a verdict `Completed`, given or on its way, is earned. It is earned because the
division is of integers: a ratio above zero needs as many successful pods as selected
nodes, and these pods are the job's own (no other job has any), one per node, so the
map from pods to nodes is an injection and leaves no node out. `VerdictsWait` needs
that a pod that exists is in the cache or still polled for (`PodsShown`), which the
polls, and after a restart the new listing, make true until a call fails. For the
refinement each effect is a step of `JobLifecycle` or none. `JobsAreRemembered` is the
safety half of the liveness the runs check: an unfinished job never runs out of what
has it looked at again. The worker is the one who may let go of a job, at the end of its
polls; that it may is `PolledIsQueued`, by which the event of the status it wrote itself
is still to come or has queued the job (`FInv`).

**`RemoverProofs`** - `TypeCorrect`, `ExclusionHolds`, `PruneCompletes`,
`CountCorrect`, `InUseSpared`. The invariant is a predicate of one remover, `Good`:
its position in the list, and whether `*` was met (`Position`); what it remembers as
deleted was deleted, and lists of IDs remember all of it (`Memory`); before the
prune, what was deleted stands earlier in the list (`Passed`); the keys still to be
visited cover every unused image not dealt with (`Visited`); plus `Late`, which ties
the containers on the node to those it listed. Removers interact only through
`onNode` and `containers`, which `Good` does not mention: that is why the proof is
local, and holds for any number of them.

**`SchedulingProofs`** - `TypeCorrect`, `OnlyDueDeleted`, `DeadlinesKept`,
`NoFinishedJobForgotten`, `CollectorNeverSleeps`. Both
controllers decide on cached jobs and delete without a version, so the invariant says
how far a cache can be trusted: a job cached as finished is finished, one cached with
a deletion time has one (`CachesBehind`), only finished jobs have one
(`DueJobsFinished`), and a worker with a template to write has a key and a job
(`WorkerType`). A deletion time is set only where the cached version is the latest
and has none, so the first one stands.

The last two theorems are about keys, which a handler drops when it returns an empty
result. A finished job keeps an owner awake because a version the cache does not have
yet will queue its owner, and the handler that drops the key of a job it has seen as it
is either has written a new version or has deleted the job. For the collector the job
that wakes it must be found anew after each deletion, for which the invariant `WInv`
adds what the controllers leave behind: an object that was deleted is still cached
(`DeletedAreCached`), a template is dropped only after its job (`DroppedAreDeleted`), a
job in hand is new and without a template (`WrittenAreNew`), without an `ImageList` its
controller is idle and owns nothing (`ListUnknown`), and a job that the first reconcile
deleted - the one deletion no key remembers - is replaced: that reconcile is still at
work or will be repeated, or another job has its template (`PurgedAreReplaced`). Both
leave out what the code does not recover from, a deletion time that could not be
written (`imagecollector_controller.go:551`), and the second also an `ImageList`, whose
job can take the collector's key with it.

**`ExclusionProofs`** - `EntriesProtect`: an entry hits whatever it covers, for all
strings, because what the code compares with (`Before`) is a prefix of what the
pattern says. `RegistryPatternsAreExact`: a pattern `/*` with one `*` hits nothing
else. For `:*` that is false, and no theorem. `ListsProtect` composes `EntriesProtect`
with `ExclusionHolds` of the removers: from the strings in the lists to the images left
on a node, in any interleaving of any number of removers.

**`PipelineProofs`** - `TypeCorrect`, `OnlyCondemnedGoes`, `SuccessIsRemoval`,
`NoDeadlock`. The first safety property needs `Flow`: what is in a pipe or in a container's hands comes
from the collector, and behind the scanner is to go. The second needs `Handover`, one
part per message: the list that came whole is the collector's (`Listed`), a scanner
that is past its scan has judged all of it (`Scanned`), the list that came whole from
the sender is all that is to go (`Ordered`), a remover past its removal has tried that
list (`Removed`), and a whole answer means a remover past its removal (`Answered`). So
the collector's exit, which rests on that answer, rests on every step before it. Each
part gives the next a lower bound on a program counter, which is why a container that
dies (its counter stays) or a truncated list (`whole` is false) breaks none of them.
`NoDeadlock` - as long as no container has failed, one of those that run can go on -
needs `Meetings`: the state of each pipe (absent, made, open, closed) tells how far its
maker and its two ends have come (`Lists` for the pipes of the lists, `Answers` for those
of the answers, with and without a scanner). So the containers' positions leave only
combinations in which somebody's partner has arrived. It says nothing of a remover that
finds no pipe for its answer: that one has failed, which is finding 4.

**`ConfigProofs`** - `TypeCorrect`, `ControllersFit`, `RuntimeIsKnown`, `NoChangeIsLost`. The invariant
adds that events and the watch exclude each other (`EventsOnce`: there is never more
than one change in the queue), that a process that runs has a configuration some
document loads (`HasConfig`), and what the loop knows (`LoopKnows`): between reading
the old configuration and comparing, the controllers set up belong to one of the two.
A set-up that falls between `Update` and `Compare` is the case that needs it.
`RuntimeIsKnown` follows from a lemma per version: either the document or the default
has a name and a socket, and the unmarshaller fills in what is left. `NoChangeIsLost`
follows from `FileFollowed`: unless the file was replaced unwatched, what it holds is in
force, or read by the loop and about to be, or the event that tells of it is waiting.

**`MigrationProofs`** - `MigrationIsFaithful`: a document that is rewritten for the next
version is accepted and means the same, for all documents that give any fields at
all. Its lemmas compare the defaults of the versions, and what decoding makes of a
field that is given and of one that is not. `RoundTrip1`, `RoundTrip2`, `RoundTrip3`:
no conversion to the unversioned form and back loses a field.

The proofs assume what the modules name: `ImageJobAssumption` (finite sets of jobs,
nodes and suffixes, at least one node, a ratio), `NodeImagesAssumption` (finitely
many images; IDs and names are different strings; no two images share a name or
digest), `RemoverAssumption` (`*` is no reference), `SchedulingAssumption` (keys and
jobs are different names; natural bounds), `SeparatorsDiffer` (`/`, `:` and `*` are
three pieces), `PipelineAssumption` (the vulnerable images are some of the
node's; a natural bound) and `ConfigReloadAssumption` (the first document is
accepted, all are `WellFormed`: a field has the type of its struct; natural bounds).

`NodeExclusionAssumption` says that strings are sequences of pieces and that `Excluded` is
what the entries hit: it defines that constant of `Remover`.

Only model-checked: liveness, which the prover does not reach (`NewJobStarts`,
`JobFinishes`, `FinishedJobsGo`, `CollectionRecurs`, `RemovalHappens`, `CompletesOrFails`,
`ChangeTakesEffect`, `ManagerReturns`, `PutOffIsPrompted`). For most of them a theorem
states the part that is safety: `JobsAreRemembered` of the first two,
`NoFinishedJobForgotten` and `CollectorNeverSleeps` of the next two, `NoDeadlock` of
`CompletesOrFails`, `NoChangeIsLost` of `ChangeTakesEffect`.

## 5. What is not modelled

* Durations, deletion of the `ImageList` itself, the ConfigMap of a list, and what the
  configuration puts into a pod template.
* What the kubelet and a user do with the configuration is modelled as far as the code
  relies on it, and marked external. Documents are well-formed but for their version
  and runtime: what a decoder refuses otherwise ends like a runtime it refuses.
* More than one pod of the manager, and settings that are read once at the start
  (profiling, the metrics endpoint).
* The reading of exclusion files while they are replaced.
* Trivy itself, gRPC, the conversion between CRI versions, metrics, logs, charts:
  mapping of data or input and output without a state that other parts read.
* Of the generated code, deep copies and the conversions of `ImageJob` and
  `ImageList`, which copy every field.
* Custom scanners: they use the same template, but may call it differently.

## 6. Plan

Done, in the order of importance: `ImageJob` with `JobLifecycle`, the controller that
decides how many removers run where; `Remover` with `NodeImages` and `Exclusion`, what
a remover may delete; `Pipeline`, what reaches it; `Scheduling`, what starts and ends
the jobs; `ConfigReload` with the versions of the file, what all of them read; and the
proofs above.

1. Composition: `Scheduling`, with names that are never used twice, over the life
   cycle of `JobLifecycle`, so that `StartJob` and `FinishJob` are steps of it.
2. Documents with fields that a decoder refuses, and the kubelet's replacement of the
   volume as two steps, for the reading of exclusion files.
3. Proofs: that `StartJob` and `FinishJob` of that composition are steps of
   `JobLifecycle`, from `LifecycleIsImplemented`; and that the removal step of
   `Pipeline`, whose outcome is any, is what `Remover` does to the images it is given.
