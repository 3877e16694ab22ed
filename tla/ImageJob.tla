------------------------------ MODULE ImageJob ------------------------------
(***************************************************************************)
(* The imagejob controller (controllers/imagejob): the reconcile loop that *)
(* turns an ImageJob object into one eraser pod per selected node, waits   *)
(* for the pods, and gives the job its verdict.                            *)
(*                                                                         *)
(* The API server is the source of truth: versions[j] and podLog[p] are    *)
(* the histories of the objects, the last element being the current one.   *)
(* The controller never reads the server: it reads informer caches, and a  *)
(* cache is a position in a history (jobCache, podCache) that a watch      *)
(* event moves forward.  It writes to the server, which refuses a status   *)
(* update made from a version that is no longer the latest.                *)
(***************************************************************************)
EXTENDS Integers, FiniteSets, Sequences

CONSTANTS Job,          \* ImageJob objects; names are generated, never reused
          Manual,       \* jobs of an ImageList; the others are the collector's
          Node,         \* the nodes of the cluster
          Matching,     \* nodes that match one of the configured selectors
          FilterType,   \* manager.nodeFilter.type: "exclude" or "include"
          Suffix,       \* the suffixes GenerateName picks from
          RatioNum,     \* manager.imageJob.successRatio is
          RatioDen,     \*   RatioNum / RatioDen
          NoJob,        \* the worker is between two jobs
          MaxFaults,    \* bound: failed API calls and pods lost
          MaxRestarts,  \* bound: restarts of the manager
          MaxTroubles,  \* bound: both of these together
          Mixed,        \* bound: may there be several jobs and faults?
          MaxDeletions  \* bound: jobs and templates deleted; if none are, no
                        \*   deletion is prepared either

ASSUME ImageJobAssumption ==
    /\ Manual \subseteq Job
    /\ NoJob \notin Job
    /\ IsFiniteSet(Job) /\ IsFiniteSet(Suffix)
    /\ IsFiniteSet(Node) /\ Node # {}
    /\ Matching \subseteq Node
    /\ FilterType \in {"exclude", "include"}
    /\ RatioNum \in Nat
    /\ RatioDen \in Nat \ {0}
    /\ MaxFaults \in Nat
    /\ MaxRestarts \in Nat
    /\ MaxTroubles \in Nat /\ Mixed \in BOOLEAN
    /\ MaxDeletions \in Nat

VARIABLES versions,       \* versions[j]: the statuses job j has had
          template,       \* template[j]: the PodTemplate named after j
          podLog,         \* podLog[p]: the phases pod p has had
          jobCache,       \* the informers: positions in versions and podLog,
          podCache,       \*
          templateCache,  \*   and the last template state seen
          queue,          \* the workqueue of the controller: job names
          worker,         \* its single worker
          faults,         \* faults injected so far
          restarts        \* restarts so far

objects == <<versions, template, podLog>>
caches  == <<jobCache, podCache, templateCache>>
budget  == <<faults, restarts>>
vars    == <<objects, caches, queue, worker, budget>>

Pod == Job \X Node \X Suffix
Terminal == {"Completed", "Failed"}
Phases == {"absent", "New", "Running", "gone"} \cup Terminal

\* Active pods; a "Failing" one still runs, but a container of it has already
\* terminated with a non-zero exit code.
Active == {"Pending", "Running", "Failing"}
PodPhases == {"absent", "Succeeded", "Failed", "gone"} \cup Active

Status == [phase : Phases, desired : Nat, succeeded : Nat, skipped : Nat,
           failed : Nat, deleteAfter : BOOLEAN]

Blank(phase) == [phase |-> phase, desired |-> 0, succeeded |-> 0,
                 skipped |-> 0, failed |-> 0, deleteAfter |-> FALSE]

Latest(log) == log[Len(log)]
JobNow(j)  == Latest(versions[j])
Phase(j)   == JobNow(j).phase
JobSeen(j) == versions[j][jobCache[j]]
PodNow(p)  == Latest(podLog[p])
PodSeen(p) == podLog[p][podCache[p]]
Born(p)    == PodNow(p) # "absent"

Write(j, status) == versions' = [versions EXCEPT ![j] = Append(@, status)]
PodMoves(p, phase) == podLog' = [podLog EXCEPT ![p] = Append(@, phase)]

Idle == [pc |-> "idle", job |-> NoJob, seen |-> 0, outcome |-> Blank("absent"),
         todo |-> {}, waiting |-> {}]

-----------------------------------------------------------------------------
(* The node filter and the verdict.                                        *)

Selected == IF FilterType = "exclude" THEN Node \ Matching ELSE Matching

\* Mutant: the placeholder a failed filter returns is kept.
StartedPlaceholder == [Blank("Running") EXCEPT !.desired = Cardinality(Node),
                                               !.skipped = -1]

\* desired counts every node, the skipped ones too.
Started == [Blank("Running") EXCEPT !.desired = Cardinality(Node),
                                    !.skipped = Cardinality(Node \ Selected)]

\* Pods are listed by the label of the job's type, not by the job.
SameType(i, j) == i \in Manual <=> j \in Manual
Listed(j) == {p \in Pod : SameType(p[1], j) /\ PodSeen(p) \notin {"absent", "gone"}}

\* Mutant: the ratio is taken over the pods found, not over those desired.
TallyOfFound(status, pods) ==
    LET ok == Cardinality({p \in pods : PodSeen(p) = "Succeeded"})
        all == Cardinality(pods) + status.skipped
    IN  [status EXCEPT
            !.phase = IF (ok + status.skipped) * RatioDen < all * RatioNum
                      THEN "Failed" ELSE "Completed",
            !.succeeded = ok,
            !.failed = Cardinality(pods) - ok,
            !.deleteAfter = FALSE]

\* The comparison is made after an integer division.
Tally(status, pods) ==
    LET ok == Cardinality({p \in pods : PodSeen(p) = "Succeeded"})
        quotient == (ok + status.skipped) \div status.desired
    IN  [status EXCEPT
            !.phase = IF quotient * RatioDen < RatioNum THEN "Failed" ELSE "Completed",
            !.succeeded = ok,
            !.failed = Cardinality(pods) - ok,
            !.deleteAfter = FALSE]

\* Only the first active pod of the list is looked at, and the order of the
\* list is not determined: both answers may be possible.
ActivePods(pods) == {p \in pods : PodSeen(p) \in Active}
MayBeComplete(pods) == \/ ActivePods(pods) = {}
                       \/ \E p \in ActivePods(pods) : PodSeen(p) = "Failing"
MayBeIncomplete(pods) == \E p \in ActivePods(pods) : PodSeen(p) # "Failing"

\* The bounds: one more fault or restart, a fault, a job.
MoreTrouble == faults + restarts < MaxTroubles
Single == \A i, j \in Job : i # j => Phase(i) = "absent" \/ Phase(j) = "absent"
MayFail == faults < MaxFaults /\ MoreTrouble /\ (Mixed \/ Single)
MayAddJob == Mixed \/ faults = 0 \/ \A j \in Job : Phase(j) = "absent"

-----------------------------------------------------------------------------
(* The owners of the jobs: imagecollector and imagelist, and kubectl.      *)

\* An owner creates a job when the informers show none of its own, or it has just
\* deleted what they show.  As they lag, jobs of one type may exist side by side.
CreateJob(j) ==
    /\ Phase(j) = "absent"
    /\ \A i \in Job \ {j} : SameType(i, j) =>
           JobSeen(i).phase \in {"absent", "gone"} \/ Phase(i) = "gone"
    /\ MayAddJob
    /\ Write(j, Blank("New"))
    /\ UNCHANGED <<template, podLog, caches, queue, worker, budget>>

\* The template is created after the job, in a call of its own that may fail.
CreateTemplate(j) ==
    /\ Phase(j) # "absent" /\ template[j] = "none"
    /\ template' = [template EXCEPT ![j] = "live"]
    /\ UNCHANGED <<versions, podLog, caches, queue, worker, budget>>

SetDeleteAfter(j) ==
    /\ Phase(j) \in Terminal /\ ~JobNow(j).deleteAfter /\ MaxDeletions > 0
    /\ Write(j, [JobNow(j) EXCEPT !.deleteAfter = TRUE])
    /\ UNCHANGED <<template, podLog, caches, queue, worker, budget>>

Deletions == Cardinality({j \in Job : Phase(j) = "gone"}) +
             Cardinality({j \in Job : template[j] = "gone"})

\* The collector's first reconcile deletes every job, in whatever phase.
DeleteJob(j) ==
    /\ Phase(j) \notin {"absent", "gone"}
    /\ Deletions < MaxDeletions
    /\ Write(j, Blank("gone"))
    /\ UNCHANGED <<template, podLog, caches, queue, worker, budget>>

\* By the owner, after the job; or by the garbage collector, once the manager
\* pod that owns the template is gone.
DeleteTemplate(j) ==
    /\ \/ template[j] = "live" /\ Phase(j) = "gone"
       \/ template[j] = "orphan"
    /\ Deletions < MaxDeletions
    /\ template' = [template EXCEPT ![j] = "gone"]
    /\ UNCHANGED <<versions, podLog, caches, queue, worker, budget>>

-----------------------------------------------------------------------------
(* The kubelets and the garbage collector.                                 *)

PodRuns(p) ==
    /\ PodNow(p) = "Pending"
    /\ PodMoves(p, "Running")
    /\ UNCHANGED <<versions, template, caches, queue, worker, budget>>

\* Pods of a manual job have one container: they fail with it.
ContainerFails(p) ==
    /\ PodNow(p) = "Running" /\ p[1] \notin Manual
    /\ PodMoves(p, "Failing")
    /\ UNCHANGED <<versions, template, caches, queue, worker, budget>>

PodSucceeds(p) ==
    /\ PodNow(p) = "Running"
    /\ PodMoves(p, "Succeeded")
    /\ UNCHANGED <<versions, template, caches, queue, worker, budget>>

PodFails(p) ==
    /\ PodNow(p) \in Active
    /\ PodMoves(p, "Failed")
    /\ UNCHANGED <<versions, template, caches, queue, worker, budget>>

\* Eviction, a node that leaves, kubectl delete.
PodLost(p) ==
    /\ PodNow(p) \notin {"absent", "gone"} /\ MayFail
    /\ PodMoves(p, "gone")
    /\ faults' = faults + 1
    /\ UNCHANGED <<versions, template, caches, queue, worker, restarts>>

CollectPod(p) ==
    /\ PodNow(p) \notin {"absent", "gone"} /\ template[p[1]] = "gone"
    /\ PodMoves(p, "gone")
    /\ UNCHANGED <<versions, template, caches, queue, worker, budget>>

-----------------------------------------------------------------------------
(* Watch events: a cache moves one version forward and the predicates of   *)
(* the watch decide whether the job is queued.                             *)

Enqueues(before, after) ==
    \/ before.phase = "absent"
    \/ after.phase \notin Terminal \cup {"gone"}

SyncJob(j) ==
    /\ jobCache[j] < Len(versions[j])
    /\ jobCache' = [jobCache EXCEPT ![j] = @ + 1]
    /\ queue' = IF Enqueues(JobSeen(j), versions[j][jobCache[j] + 1])
                THEN queue \cup {j} ELSE queue
    /\ UNCHANGED <<objects, podCache, templateCache, worker, budget>>

\* Template events queue nothing: their predicates ask for a label that
\* templates do not have.
SyncTemplate(j) ==
    /\ \/ /\ templateCache[j] = "none" /\ template[j] # "none"
          /\ templateCache' = [templateCache EXCEPT ![j] = "live"]
       \/ /\ templateCache[j] = "live" /\ template[j] = "gone"
          /\ templateCache' = [templateCache EXCEPT ![j] = "gone"]
    /\ UNCHANGED <<objects, jobCache, podCache, queue, worker, budget>>

\* Mutant: pod events are not watched.
SyncPodSilently(p) ==
    /\ podCache[p] < Len(podLog[p])
    /\ podCache' = [podCache EXCEPT ![p] = @ + 1]
    /\ UNCHANGED <<objects, jobCache, templateCache, queue, worker, budget>>

\* The name of the pod's owner, the template, is the name of the job.
SyncPod(p) ==
    /\ podCache[p] < Len(podLog[p])
    /\ podCache' = [podCache EXCEPT ![p] = @ + 1]
    /\ queue' = queue \cup {p[1]}
    /\ UNCHANGED <<objects, jobCache, templateCache, worker, budget>>

\* The periodic resync of an informer delivers an update for every object.
Resync(j) ==
    /\ JobSeen(j).phase \notin {"absent", "gone"}
    /\ Enqueues(JobSeen(j), JobSeen(j))
    /\ queue' = queue \cup {j}
    /\ UNCHANGED <<objects, caches, worker, budget>>

-----------------------------------------------------------------------------
(* Reconcile.                                                              *)

\* The worker takes j and reads it from the cache.
Takes(j, phases) ==
    /\ worker = Idle /\ j \in queue
    /\ JobSeen(j).phase \in phases

Done(j) == /\ worker' = Idle
           /\ queue' = queue \ {j}

\* The handler returned an error: j goes back to the queue after a back-off.
Retry(j) == /\ worker' = Idle
            /\ queue' = queue \cup {j}

Decides(j, status) ==
    /\ worker' = [Idle EXCEPT !.pc = "update", !.job = j,
                              !.seen = jobCache[j], !.outcome = status]
    /\ queue' = queue \ {j}

ReconcileNothing(j) ==
    /\ Takes(j, {"absent", "gone"} \cup Terminal)
    /\ Done(j)
    /\ UNCHANGED <<objects, caches, budget>>

\* Mutant: a missing template is not an error.
ReconcileNewOnce(j) ==
    /\ Takes(j, {"New"})
    /\ IF templateCache[j] = "live" THEN Decides(j, Started) ELSE Done(j)
    /\ UNCHANGED <<objects, caches, budget>>

ReconcileNew(j) ==
    /\ Takes(j, {"New"})
    /\ IF templateCache[j] = "live" THEN Decides(j, Started) ELSE Retry(j)
    /\ UNCHANGED <<objects, caches, budget>>

ReconcileRunning(j) ==
    /\ Takes(j, {"Running"})
    /\ \/ /\ templateCache[j] # "live"
          /\ Decides(j, [Blank("Failed") EXCEPT !.deleteAfter = TRUE])
       \/ /\ templateCache[j] = "live" /\ MayBeIncomplete(Listed(j))
          /\ Done(j)
       \/ /\ templateCache[j] = "live" /\ MayBeComplete(Listed(j))
          /\ Decides(j, Tally(JobSeen(j), Listed(j)))
    /\ UNCHANGED <<objects, caches, budget>>

\* Mutant: a merge patch in place of the update, with no version to match.
PatchAccepted(j, seen) == Phase(j) # "gone"

\* The API server accepts a status update of the latest version only, and of
\* a job that still exists.
UpdateAccepted(j, seen) == seen = Len(versions[j])

\* After the update of a new job the pods are created, one per selected node.
AfterUpdate(j) ==
    IF worker.outcome.phase = "Running"
    THEN /\ worker' = [Idle EXCEPT !.pc = "pods", !.job = j, !.todo = Selected]
         /\ UNCHANGED queue
    ELSE /\ worker' = Idle
         /\ UNCHANGED queue

UpdateStatus(j) ==
    /\ worker.pc = "update" /\ worker.job = j
    /\ UpdateAccepted(j, worker.seen)
    /\ Write(j, worker.outcome)
    /\ AfterUpdate(j)
    /\ UNCHANGED <<template, podLog, caches, budget>>

UpdateConflicts(j) ==
    /\ worker.pc = "update" /\ worker.job = j
    /\ ~UpdateAccepted(j, worker.seen)
    /\ Retry(j)
    /\ UNCHANGED <<objects, caches, budget>>

\* Mutant: the failed update is logged and the pods are created.
UpdateFailureIgnored(j) ==
    /\ worker.pc = "update" /\ worker.job = j /\ MayFail
    /\ UNCHANGED versions
    /\ AfterUpdate(j)
    /\ faults' = faults + 1
    /\ UNCHANGED <<template, podLog, caches, restarts>>

\* Mutant: the failed update is logged and the job is dropped.
UpdateFailsForGood(j) ==
    /\ worker.pc = "update" /\ worker.job = j /\ MayFail
    /\ UNCHANGED versions
    /\ Done(j)
    /\ faults' = faults + 1
    /\ UNCHANGED <<template, podLog, caches, restarts>>

\* A call that fails may have taken effect on the server.
UpdateFails(j) ==
    /\ worker.pc = "update" /\ worker.job = j /\ MayFail
    /\ \/ UNCHANGED versions
       \/ UpdateAccepted(j, worker.seen) /\ Write(j, worker.outcome)
    /\ Retry(j)
    /\ faults' = faults + 1
    /\ UNCHANGED <<template, podLog, caches, restarts>>

Creates(p) == /\ ~Born(p)
              /\ podLog' = [podLog EXCEPT ![p] = Append(@, "Pending")]

CreatePod(p) ==
    /\ worker.pc = "pods" /\ worker.job = p[1] /\ p[2] \in worker.todo
    /\ Creates(p)
    /\ worker' = [worker EXCEPT !.todo = @ \ {p[2]}, !.waiting = @ \cup {p}]
    /\ UNCHANGED <<versions, template, caches, queue, budget>>

\* The handler returns with the error: the pods of the remaining nodes are
\* never created, since the job is no longer new.
CreatePodFails(p) ==
    /\ worker.pc = "pods" /\ worker.job = p[1] /\ p[2] \in worker.todo
    /\ MayFail
    /\ UNCHANGED podLog \/ Creates(p)
    /\ Retry(p[1])
    /\ faults' = faults + 1
    /\ UNCHANGED <<versions, template, caches, restarts>>

\* When the pods are created, each is polled in the cache until it has left
\* Pending, for five minutes at most.  Watch events arrive well within them,
\* so a poll that times out has seen the pod as it is.
PodReady(p) == PodSeen(p) \notin {"absent", "gone", "Pending"}
NoPoll(p) == TRUE         \* mutant: the pods are not waited for
PollForever(p) == FALSE   \* mutant: the poll has no time limit
PollTimesOut(p) == ~PodReady(p) /\ podCache[p] = Len(podLog[p])

StopPolling(p) ==
    /\ worker.pc = "pods" /\ worker.todo = {} /\ p \in worker.waiting
    /\ PodReady(p) \/ PollTimesOut(p)
    /\ worker' = [worker EXCEPT !.waiting = @ \ {p}]
    /\ UNCHANGED <<objects, caches, queue, budget>>

PodsPolled(j) ==
    /\ worker.pc = "pods" /\ worker.job = j
    /\ worker.todo = {} /\ worker.waiting = {}
    /\ worker' = Idle
    /\ UNCHANGED <<objects, caches, queue, budget>>

-----------------------------------------------------------------------------
(* A restart of the manager: the worker's progress and the queue are lost, *)
(* the informers list everything anew and deliver a create event for every *)
(* object.  When the manager's pod was replaced, the templates it owned    *)
(* are left to the garbage collector.                                      *)

Restart ==
    /\ restarts < MaxRestarts /\ MoreTrouble
    /\ restarts' = restarts + 1
    /\ \/ UNCHANGED template
       \/ /\ MaxDeletions > 0
          /\ template' = [j \in Job |-> IF template[j] = "live" THEN "orphan"
                                                                ELSE template[j]]
    /\ jobCache' = [j \in Job |-> Len(versions[j])]
    /\ podCache' = [p \in Pod |-> Len(podLog[p])]
    /\ templateCache' = [j \in Job |-> IF template[j] = "orphan" THEN "live"
                                                                 ELSE template[j]]
    /\ queue' = {j \in Job : Phase(j) \notin {"absent", "gone"}} \cup
                {p[1] : p \in {q \in Pod : PodNow(q) \notin {"absent", "gone"}}}
    /\ worker' = Idle
    /\ UNCHANGED <<versions, podLog, faults>>

-----------------------------------------------------------------------------
Init ==
    /\ versions = [j \in Job |-> <<Blank("absent")>>]
    /\ template = [j \in Job |-> "none"]
    /\ podLog = [p \in Pod |-> <<"absent">>]
    /\ jobCache = [j \in Job |-> 1]
    /\ podCache = [p \in Pod |-> 1]
    /\ templateCache = [j \in Job |-> "none"]
    /\ queue = {}
    /\ worker = Idle
    /\ faults = 0
    /\ restarts = 0

Owner(j) == \/ CreateJob(j) \/ CreateTemplate(j) \/ SetDeleteAfter(j)
            \/ DeleteJob(j) \/ DeleteTemplate(j)

Kubelet(p) == PodRuns(p) \/ ContainerFails(p) \/ PodSucceeds(p) \/ PodFails(p)

Cluster(p) == Kubelet(p) \/ PodLost(p) \/ CollectPod(p)

Reconcile(j) == ReconcileNothing(j) \/ ReconcileNew(j) \/ ReconcileRunning(j)

Proceed(j) == \/ UpdateStatus(j) \/ UpdateConflicts(j) \/ UpdateFails(j)
              \/ PodsPolled(j)

ProceedPod(p) == CreatePod(p) \/ CreatePodFails(p) \/ StopPolling(p)

Next == \/ \E j \in Job : \/ Owner(j) \/ SyncJob(j) \/ SyncTemplate(j)
                          \/ Resync(j) \/ Reconcile(j) \/ Proceed(j)
        \/ \E p \in Pod : Cluster(p) \/ SyncPod(p) \/ ProceedPod(p)
        \/ Restart

Spec == Init /\ [][Next]_vars

\* The queue serves every job in turn (strong fairness: the worker is idle
\* again and again), calls return, and watch events are delivered.
Fairness ==
    /\ \A j \in Job : /\ SF_vars(Reconcile(j)) /\ WF_vars(Proceed(j))
                      /\ WF_vars(SyncJob(j)) /\ WF_vars(SyncTemplate(j))
    /\ \A p \in Pod : WF_vars(SyncPod(p))
    /\ WF_vars(\E p \in Pod : ProceedPod(p))

FairSpec == Spec /\ Fairness

-----------------------------------------------------------------------------
(* Properties.                                                             *)

\* The type invariant of the controller, the objects and the informers.
TypeOK ==
    /\ versions \in [Job -> Seq(Status)]
    /\ template \in [Job -> {"none", "live", "orphan", "gone"}]
    /\ podLog \in [Pod -> Seq(PodPhases)]
    /\ jobCache \in [Job -> Nat \ {0}]
    /\ podCache \in [Pod -> Nat \ {0}]
    /\ templateCache \in [Job -> {"none", "live", "gone"}]
    /\ queue \subseteq Job
    /\ worker \in [pc : {"idle", "update", "pods"}, job : Job \cup {NoJob},
                   seen : Nat, outcome : Status,
                   todo : SUBSET Node, waiting : SUBSET Pod]
    /\ faults \in 0 .. MaxFaults
    /\ restarts \in 0 .. MaxRestarts

\* Reconciling a job again - from a cache that still shows it as new, after a
\* failed call, after a restart - never gives a node a second pod of the job:
\* two removers on one node would delete images side by side.
OnePodPerNode ==
    \A j \in Job, n \in Node, s, t \in Suffix :
        Born(<<j, n, s>>) /\ Born(<<j, n, t>>) => s = t

\* A job has no pod before its status says it is running: its owner and its
\* users never see pods of a job that does not account for them.
PodsOnlyOfStartedJobs ==
    \A p \in Pod : Born(p) => Phase(p[1]) \notin {"absent", "New"}

\* The verdict of a job is final: whatever the informers still show, once a
\* version is Completed or Failed the later ones have the same phase and
\* counters, and a deletion time that was set is not cleared.
VerdictIsFinal ==
    \A j \in Job : \A v \in 1 .. Len(versions[j]), w \in 1 .. Len(versions[j]) :
        LET old == versions[j][v]
            new == versions[j][w]
        IN  v < w /\ old.phase \in Terminal /\ new.phase # "gone" =>
                \/ new = old
                \/ new = [old EXCEPT !.deleteAfter = TRUE]

\* No other job of j's type was ever started.
OnlyOneOfItsType(j) ==
    \A i \in Job \ {j} : SameType(i, j) => Phase(i) = "absent"

\* With a success ratio above zero, a job of which no other job shares the
\* type is Completed only if on every selected node its own pod succeeded.
CompletedMeansEveryNodeDone ==
    \A j \in Job :
        Phase(j) = "Completed" /\ RatioNum > 0 /\ OnlyOneOfItsType(j) =>
            \A n \in Selected : \E s \in Suffix :
                \E i \in 1 .. Len(podLog[<<j, n, s>>]) :
                    podLog[<<j, n, s>>][i] = "Succeeded"

\* Until a call fails, a job whose template exists is not given its verdict
\* while a pod of it is active, unless a container of some pod has failed: the
\* polls of handleNewJob make up for a cache that does not show the pods yet.
VerdictAwaitsPods ==
    [][\A j \in Job :
         (faults = 0 /\ Phase(j) = "Running" /\ Phase(j)' \in Terminal /\ ~JobNow(j)'.deleteAfter)
         => \A p \in Pod : p[1] = j /\ PodNow(p) \in Active =>
                \E q \in Pod : /\ SameType(q[1], j)
                               /\ \E i \in 1 .. Len(podLog[q]) : podLog[q][i] = "Failing"
      ]_vars

\* What a reader of "if all pods are complete, job is complete" expects of a
\* job that got its verdict: no pod of it is at work and in good health.
VerdictMeansPodsDone ==
    \A j \in Job : Phase(j) \in Terminal =>
        \A p \in Pod : p[1] = j => PodNow(p) \notin {"Pending", "Running"}

\* A job is a failure only if fewer than successRatio of its pods succeeded.
FailedMeansBelowRatio ==
    \A j \in Job :
        LET status == JobNow(j)
        IN  status.phase = "Failed" /\ status.desired > 0 =>
                (status.succeeded + status.skipped) * RatioDen < status.desired * RatioNum

\* The controller will look at j again: j is queued, the worker has it, or a
\* watch event of j is on its way.
Attended(j) == j \in queue \/ worker.job = j \/ jobCache[j] < Len(versions[j])

\* A pod of j is about to have it queued: an event of the pod is on its way, or
\* the pod is at work and will end.
Awaited(j) ==
    \E p \in Pod : /\ p[1] = j
                   /\ podCache[p] < Len(podLog[p]) \/ PodNow(p) \in {"Pending", "Running"}

\* No job is forgotten: a new one is attended to until it is started, and one that
\* runs alone of its type until the verdict, or a pod of it calls the controller
\* back, whatever was read from a stale cache, failed or was lost in a restart.
NoJobForgotten ==
    \A j \in Job :
        /\ Phase(j) = "New" => Attended(j)
        /\ Phase(j) = "Running" /\ OnlyOneOfItsType(j) => Attended(j) \/ Awaited(j)

\* A job that has its template is started, however the cache lags, calls fail
\* and other jobs keep the only worker busy with pods that never start.
NewJobStarts ==
    \A j \in Job : (Phase(j) = "New" /\ template[j] = "live")
                   ~> (Phase(j) # "New" \/ template[j] # "live")

\* Every pod ends, or a container of it fails: Pipeline.tla says when.
PodsEnd == \A p \in Pod : WF_vars(Kubelet(p))

\* The resync of the informers recurs (every ten hours by default).
Resyncs == \A j \in Job : WF_vars(Resync(j))

\* If the pods end, so does the job: no event that matters is lost between
\* the informers, the queue and a worker that is busy elsewhere.  A job that
\* shares its type with another one needs the resync: the pod events of the
\* other may be all that shows it complete.
JobFinishes ==
    PodsEnd => \A j \in Job :
        []OnlyOneOfItsType(j) \/ Resyncs =>
            (Phase(j) = "Running" ~> Phase(j) \in Terminal \cup {"gone"})

\* The controller implements the life cycle its owners rely on.
Lifecycle == INSTANCE JobLifecycle WITH
    phase     <- [j \in Job |-> Phase(j)],
    placed    <- [x \in Job \X Node |->
                     Cardinality({s \in Suffix : Born(<<x[1], x[2], s>>)})],
    succeeded <- {x \in Job \X Node :
                     \E s \in Suffix : \E i \in 1 .. Len(podLog[<<x[1], x[2], s>>]) :
                         podLog[<<x[1], x[2], s>>][i] = "Succeeded"}

ImplementsLifecycle == Lifecycle!Spec
=============================================================================
