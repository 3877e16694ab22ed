----------------------------- MODULE Scheduling -----------------------------
(***************************************************************************)
(* The two controllers that own ImageJobs, side by side: imagecollector,   *)
(* which starts a collection every repeatInterval, and imagelist, which    *)
(* starts a job for the ImageList.  Each creates a job and its template,   *)
(* sets a deletion time on the finished job, and deletes both.             *)
(*                                                                         *)
(* Here a job is only its phase, its owner and its deletion time: what     *)
(* makes it run and end is the subject of ImageJob.  "Finished" stands for *)
(* Completed and Failed, between which the two controllers tell apart only *)
(* how long the job is kept; and durations are not modelled: a timer may   *)
(* fire, and a deletion time pass, at any moment.                          *)
(*                                                                         *)
(* A controller is a workqueue of keys, a set of delayed keys (requeues    *)
(* and retries) and one worker.  It reads the informer cache, which lags   *)
(* behind the API server, and writes to the server.                        *)
(***************************************************************************)
EXTENDS Naturals, FiniteSets

CONSTANTS Job,             \* names GenerateName picks for jobs
          FirstReconcile,  \* the key of the collector's first reconcile
          ImageList,       \* the key of the only supported ImageList
          None,            \* no key, no job
          CollectorEnabled,  \* components.collector.enabled
          Unreliable,      \* the calls to the API server that may fail
          MaxFaults,       \* bound: calls that fail, each at most once
          MaxUpdates,      \* bound: creation and updates of the ImageList
          MaxRestarts,     \* bound: restarts of the manager
          MaxChanges       \* bound: both of these together

Calls == {"delete job", "create job", "find kind", "create template",
          "own configmap", "set deleteAfter", "delete template", "update list"}

ASSUME SchedulingAssumption ==
    /\ IsFiniteSet(Job)
    /\ {FirstReconcile, ImageList, None} \cap Job = {}
    /\ Cardinality({FirstReconcile, ImageList, None}) = 3
    /\ CollectorEnabled \in BOOLEAN
    /\ Unreliable \subseteq Calls
    /\ {MaxFaults, MaxUpdates, MaxRestarts, MaxChanges} \subseteq Nat

VARIABLES jobs,      \* jobs[n]: the last version of the ImageJob named n
          deleted,   \* jobs the server has deleted; their last version stays
                     \*   in jobs until the cache has seen the deletion
          elapsed,   \* jobs whose deletion time has passed
          template,  \* the names that have a PodTemplate
          seen,      \* seen[n]: job n in the informer cache
          list,      \* the ImageList: its generation, the cached one, whether
                     \*   the cached resourceVersion is out of date, and (a
                     \*   history) the last generation a job was created for
          worker,    \* worker[c]: the queue and the worker of controller c
          failed,    \* the calls that have failed
          restarts   \* restarts so far

objects == <<jobs, deleted, elapsed, template>>
vars == <<objects, seen, list, worker, failed, restarts>>

Controllers == {"collector", "imagelist"}
Key == Job \cup {FirstReconcile, ImageList}

Absent == [phase |-> "absent", owner |-> "none", gen |-> 0, deleteAfter |-> FALSE]
Version == {Absent} \cup
           [phase : {"New", "Running", "Finished"}, owner : Controllers,
            gen : 0 .. MaxUpdates, deleteAfter : BOOLEAN]

Exists(n) == jobs[n] # Absent /\ n \notin deleted
Cached == {n \in Job : seen[n] # Absent}

Idle == [queue |-> {}, timers |-> {}, pc |-> "idle", key |-> None, job |-> None]

\* Types; and a job that is cached or being deleted is one the server had.
TypeOK ==
    /\ jobs \in [Job -> Version] /\ seen \in [Job -> Version]
    /\ \A n \in Cached \cup deleted : jobs[n] # Absent
    /\ deleted \subseteq Job /\ elapsed \subseteq Job /\ template \subseteq Job
    /\ list \in [gen : 0 .. MaxUpdates, seen : 0 .. MaxUpdates, stale : BOOLEAN,
                ran : 0 .. MaxUpdates]
    /\ worker \in [Controllers ->
                     [queue : SUBSET Key, timers : SUBSET Key,
                      pc : {"idle", "create", "template", "drop"},
                      key : Key \cup {None}, job : Job \cup {None}]]
    /\ failed \subseteq Unreliable
    /\ restarts \in 0 .. MaxRestarts

-----------------------------------------------------------------------------
(* The workqueue and the worker.                                           *)

Breaks(call) == /\ call \in Unreliable \ failed
                /\ Cardinality(failed) < MaxFaults
                /\ failed' = failed \cup {call}
Works == UNCHANGED failed

At(c, pc) == worker[c].pc = pc

\* The key is taken from the queue when the reconcile begins; an event that
\* comes while it is served queues it again.
Left(c, k) == IF At(c, "idle") THEN worker[c].queue \ {k} ELSE worker[c].queue

Goes(c, k, pc, n) ==
    worker' = [worker EXCEPT ![c] = [queue |-> Left(c, k), timers |-> @.timers,
                                     pc |-> pc, key |-> k, job |-> n]]

\* The reconcile returns an empty result.
Done(c, k) == worker' = [worker EXCEPT ![c] = [Idle EXCEPT !.queue = Left(c, k),
                                                           !.timers = worker[c].timers]]

\* It returns an error or a delay: the key comes back after a while.
Again(c, k) ==
    worker' = [worker EXCEPT ![c] = [Idle EXCEPT !.queue = Left(c, k),
                                     !.timers = worker[c].timers \cup {k}]]

Serves(c, k) == At(c, "idle") /\ k \in worker[c].queue

TimerFires(c, k) == /\ k \in worker[c].timers
                    /\ worker' = [worker EXCEPT ![c].queue = @ \cup {k},
                                                ![c].timers = @ \ {k}]
                    /\ UNCHANGED <<objects, seen, list, failed, restarts>>

-----------------------------------------------------------------------------
(* What both controllers do with a job.  Each operator ends the reconcile  *)
(* of key k, or says where it goes on; all of them leave the caches alone. *)

\* Generated names are never used twice: a name is free once nobody knows it.
\* A template left behind keeps its own name, which nobody will ask for.  Names
\* mean nothing, so that any free one stands for all.
Free == {n \in Job : /\ jobs[n] = Absent
                     /\ \A c \in Controllers :
                           n \notin worker[c].queue \cup worker[c].timers
                                    \cup {worker[c].key, worker[c].job}}

NewJob(c) == [phase |-> "New", owner |-> c, deleteAfter |-> FALSE,
              gen |-> IF c = "imagelist" THEN list.seen ELSE 0]

CreateJob(c, k) ==
    /\ UNCHANGED <<deleted, elapsed>>
    /\ \/ /\ Free # {} /\ Works
          /\ LET n == CHOOSE n \in Free : TRUE
             IN  /\ jobs' = [jobs EXCEPT ![n] = NewJob(c)]
                 /\ template' = template \ {n}
                 /\ Goes(c, k, "template", n)
          /\ list' = [list EXCEPT !.ran = IF c = "imagelist" THEN list.seen ELSE @]
       \/ /\ \/ Breaks("create job") /\ Again(c, k)
             \/ c = "imagelist" /\ Breaks("find kind") /\ Done(c, k)
          /\ UNCHANGED <<jobs, template, list>>

\* The job's template, and then the owner of the list's ConfigMap.
CreateTemplate(c, k) ==
    /\ \/ Breaks("create template") /\ Again(c, k) /\ UNCHANGED template
       \/ /\ template' = template \cup {worker[c].job}
          /\ \/ Works /\ Done(c, k)
             \/ c = "imagelist" /\ Breaks("own configmap") /\ Again(c, k)
    /\ UNCHANGED <<jobs, deleted, elapsed, list>>

\* Mutant: the version of the update is not compared with the latest one.
SetDeleteAfterBlindly(c, k, n) ==
    /\ Done(c, k) /\ UNCHANGED <<deleted, template>>
    /\ \/ /\ Exists(n) /\ Works
          /\ jobs' = [jobs EXCEPT ![n].deleteAfter = TRUE]
          /\ elapsed' = elapsed \ {n}
       \/ /\ (~Exists(n) /\ Works) \/ Breaks("set deleteAfter")
          /\ UNCHANGED <<jobs, elapsed>>

\* Whether the update of the status succeeds or not, the handler returns: if
\* it does, the event of the update brings the job back.  It fails when the
\* cached version is no longer the latest.
SetDeleteAfter(c, k, n) ==
    /\ Done(c, k) /\ UNCHANGED <<deleted, template>>
    /\ \/ /\ Exists(n) /\ seen[n] = jobs[n] /\ Works
          /\ jobs' = [jobs EXCEPT ![n].deleteAfter = TRUE]
          /\ elapsed' = elapsed \ {n}
       \/ /\ \/ (~Exists(n) \/ seen[n] # jobs[n]) /\ Works
             \/ Breaks("set deleteAfter")
          /\ UNCHANGED <<jobs, elapsed>>

DeleteJob(c, k, n) ==
    /\ UNCHANGED <<jobs, elapsed, template>>
    /\ \/ Exists(n) /\ Works /\ deleted' = deleted \cup {n} /\ Goes(c, k, "drop", n)
       \/ /\ (~Exists(n) /\ Works) \/ Breaks("delete job")
          /\ Again(c, k) /\ UNCHANGED deleted

\* Mutant: the deletion time is not waited for.
HandleFinishedAtOnce(c, k, n) ==
    \/ ~seen[n].deleteAfter /\ SetDeleteAfter(c, k, n)
    \/ seen[n].deleteAfter /\ DeleteJob(c, k, n)

HandleFinished(c, k, n) ==
    \/ ~seen[n].deleteAfter /\ SetDeleteAfter(c, k, n)
    \/ /\ seen[n].deleteAfter /\ n \notin elapsed
       /\ Again(c, k) /\ Works /\ UNCHANGED objects
    \/ seen[n].deleteAfter /\ n \in elapsed /\ DeleteJob(c, k, n)

\* Mutant: nothing starts the repeat interval after a deletion.
DropTemplateOnly(c, k) ==
    /\ \/ /\ worker[c].job \in template /\ Works
          /\ template' = template \ {worker[c].job} /\ Done(c, k)
       \/ /\ (worker[c].job \notin template /\ Works) \/ Breaks("delete template")
          /\ Again(c, k) /\ UNCHANGED template
    /\ UNCHANGED <<jobs, deleted, elapsed, list>>

\* The collector then waits for the repeat interval.
DropTemplate(c, k) ==
    /\ \/ /\ worker[c].job \in template /\ Works
          /\ template' = template \ {worker[c].job}
          /\ IF c = "collector" THEN Again(c, k) ELSE Done(c, k)
       \/ /\ (worker[c].job \notin template /\ Works) \/ Breaks("delete template")
          /\ Again(c, k) /\ UNCHANGED template
    /\ UNCHANGED <<jobs, deleted, elapsed, list>>

Continues(c) ==
    /\ \/ At(c, "template") /\ CreateTemplate(c, worker[c].key)
       \/ At(c, "drop") /\ DropTemplate(c, worker[c].key)
    /\ UNCHANGED <<seen, restarts>>

-----------------------------------------------------------------------------
(* imagecollector.  It lists the jobs of both owners.                      *)

\* The first reconcile deletes every job; templates stay.  The order of the
\* list is not determined, and the first failure ends the loop.
Purge ==
    /\ Serves("collector", FirstReconcile)
    /\ \/ /\ \A n \in Cached : Exists(n)
          /\ deleted' = deleted \cup Cached
          /\ Works /\ Goes("collector", FirstReconcile, "create", None)
       \/ \E n \in Cached, before \in SUBSET Cached :
             /\ \A m \in before : Exists(m) /\ m # n
             /\ deleted' = deleted \cup before
             /\ (~Exists(n) /\ Works) \/ (Exists(n) /\ Breaks("delete job"))
             /\ Again("collector", FirstReconcile)
    /\ UNCHANGED <<jobs, elapsed, template, list, seen, restarts>>

AfterPurge == /\ At("collector", "create")
              /\ CreateJob("collector", FirstReconcile)
              /\ UNCHANGED <<seen, restarts>>

\* One job that is not finished is an error, and so are several jobs.
CollectorReconciles(k) ==
    /\ Serves("collector", k) /\ k # FirstReconcile
    /\ \/ Cached = {} /\ CreateJob("collector", k)
       \/ \E n \in Cached :
             /\ Cached = {n} /\ seen[n].phase = "Finished"
             /\ HandleFinished("collector", k, n) /\ UNCHANGED list
       \/ /\ \E n \in Cached : Cached # {n} \/ seen[n].phase # "Finished"
          /\ Again("collector", k) /\ Works /\ UNCHANGED <<objects, list>>
    /\ UNCHANGED <<seen, restarts>>

-----------------------------------------------------------------------------
(* imagelist.  It lists its own jobs.                                      *)

Owned == {n \in Cached : seen[n].owner = "imagelist"}

\* The counters of a finished job go to the status of the ImageList first.
HandleOwnFinished(n) ==
    \/ /\ ~list.stale /\ list' = [list EXCEPT !.stale = TRUE]
       /\ HandleFinished("imagelist", ImageList, n)
    \/ /\ (list.stale /\ Works) \/ Breaks("update list")
       /\ Again("imagelist", ImageList) /\ UNCHANGED <<objects, list>>

\* One job that is not finished is asked for again, several jobs are an error.
ListReconciles ==
    /\ Serves("imagelist", ImageList)
    /\ \/ Owned = {} /\ CreateJob("imagelist", ImageList)
       \/ \E n \in Owned : /\ Owned = {n} /\ seen[n].phase = "Finished"
                           /\ HandleOwnFinished(n)
       \/ /\ \E n \in Owned : Owned # {n} \/ seen[n].phase # "Finished"
          /\ Again("imagelist", ImageList) /\ Works /\ UNCHANGED <<objects, list>>
    /\ UNCHANGED <<seen, restarts>>

-----------------------------------------------------------------------------
(* The imagejob controller, time, the user and the watches.                *)

StartJob(n) == /\ Exists(n) /\ jobs[n].phase = "New" /\ n \in template
               /\ jobs' = [jobs EXCEPT ![n].phase = "Running"]
               /\ UNCHANGED <<deleted, elapsed, template, seen, list, worker,
                              failed, restarts>>

\* A job whose template is gone fails, and is given its deletion time at once.
FinishJob(n) == /\ Exists(n) /\ jobs[n].phase = "Running"
                /\ \E due \in {FALSE, n \notin template} :
                      jobs' = [jobs EXCEPT ![n].phase = "Finished",
                                           ![n].deleteAfter = due]
                /\ UNCHANGED <<deleted, elapsed, template, seen, list, worker,
                               failed, restarts>>

Elapse(n) == /\ jobs[n].deleteAfter /\ n \notin elapsed
             /\ elapsed' = elapsed \cup {n}
             /\ UNCHANGED <<jobs, deleted, template, seen, list, worker, failed,
                            restarts>>

UpdateList == /\ list.gen < MaxUpdates /\ list.gen + restarts < MaxChanges
              /\ list' = [list EXCEPT !.gen = @ + 1, !.stale = TRUE]
              /\ UNCHANGED <<objects, seen, worker, failed, restarts>>

Enqueue(c, k) == worker' = [worker EXCEPT ![c].queue = @ \cup {k}]

\* Only a new generation passes the predicate, not an update of the status.
SyncList == /\ list.stale
            /\ list' = [list EXCEPT !.seen = list.gen, !.stale = FALSE]
            /\ IF list.gen # list.seen THEN Enqueue("imagelist", ImageList)
                                       ELSE UNCHANGED worker
            /\ UNCHANGED <<objects, seen, failed, restarts>>

\* The events of a job come in order.  Its owner is woken by updates only, and
\* only by those after which the job is finished.
Created(n) == /\ seen[n] = Absent /\ jobs[n] # Absent
              /\ seen' = [seen EXCEPT ![n] = [jobs[n] EXCEPT !.phase = "New",
                                                             !.deleteAfter = FALSE]]
              /\ UNCHANGED <<objects, list, worker, failed, restarts>>

\* Mutant: only the update that finishes the job wakes its owner.
WakesOnce(n) == jobs[n].phase = "Finished" /\ seen[n].phase # "Finished"

Wakes(n) == jobs[n].phase = "Finished"

Updated(n) ==
    /\ seen[n] # Absent /\ seen[n] # jobs[n]
    /\ seen' = [seen EXCEPT ![n] = jobs[n]]
    /\ \/ ~Wakes(n) /\ UNCHANGED worker
       \/ /\ Wakes(n) /\ jobs[n].owner = "collector"
          /\ IF CollectorEnabled THEN Enqueue("collector", n) ELSE UNCHANGED worker
       \/ /\ Wakes(n) /\ jobs[n].owner = "imagelist"
          /\ Enqueue("imagelist", ImageList)
    /\ UNCHANGED <<objects, list, failed, restarts>>

\* Mutant: the cache keeps a job whose deletion it has been told of.
GoneButCached(n) == /\ n \in deleted /\ seen[n] = jobs[n]
                    /\ jobs' = [jobs EXCEPT ![n] = Absent]
                    /\ deleted' = deleted \ {n} /\ elapsed' = elapsed \ {n}
                    /\ UNCHANGED <<seen, template, list, worker, failed, restarts>>

Gone(n) == /\ n \in deleted /\ seen[n] = jobs[n]
           /\ seen' = [seen EXCEPT ![n] = Absent]
           /\ jobs' = [jobs EXCEPT ![n] = Absent]
           /\ deleted' = deleted \ {n} /\ elapsed' = elapsed \ {n}
           /\ UNCHANGED <<template, list, worker, failed, restarts>>

\* The watches begin with a creation event of the ImageList; the collector, if
\* it is enabled, starts a timer for its first reconcile.
Started(gen) ==
    [c \in Controllers |->
        [Idle EXCEPT
            !.timers = IF c = "collector" /\ CollectorEnabled THEN {FirstReconcile} ELSE {},
            !.queue = IF c = "imagelist" /\ gen > 0 THEN {ImageList} ELSE {}]]

\* When the pod of the manager is replaced, the templates it owns go with it.
Restart ==
    /\ restarts < MaxRestarts /\ list.gen + restarts < MaxChanges
    /\ restarts' = restarts + 1
    /\ jobs' = [n \in Job |-> IF Exists(n) THEN jobs[n] ELSE Absent]
    /\ seen' = jobs'
    /\ deleted' = {} /\ elapsed' = elapsed \ deleted
    /\ template' \in {template, {}}
    /\ list' = [list EXCEPT !.seen = list.gen, !.stale = FALSE]
    /\ worker' = Started(list.gen)
    /\ UNCHANGED failed

Init == /\ jobs = [n \in Job |-> Absent] /\ seen = [n \in Job |-> Absent]
        /\ deleted = {} /\ elapsed = {} /\ template = {}
        /\ list = [gen |-> 0, seen |-> 0, stale |-> FALSE, ran |-> 0]
        /\ worker = Started(0)
        /\ failed = {} /\ restarts = 0

-----------------------------------------------------------------------------
Serve(c) ==
    \/ Continues(c)
    \/ c = "imagelist" /\ ListReconciles
    \/ c = "collector" /\ (Purge \/ AfterPurge \/ \E k \in Key : CollectorReconciles(k))

Sync(n) == Created(n) \/ Updated(n) \/ Gone(n)

Next == \/ \E c \in Controllers : Serve(c) \/ \E k \in Key : TimerFires(c, k)
        \/ \E n \in Job : StartJob(n) \/ FinishJob(n) \/ Elapse(n) \/ Sync(n)
        \/ SyncList \/ UpdateList \/ Restart

Spec == Init /\ [][Next]_vars

\* Workers, timers and watches run; time passes; jobs that have their template
\* end (ImageJob).  A workqueue is served in the order of its keys, so that the
\* first reconcile has its turn though other keys return again and again.
\* Nothing is assumed of the user, of restarts or of faults.
Fairness ==
    /\ \A c \in Controllers : /\ WF_vars(Serve(c))
                              /\ \A k \in Key : WF_vars(TimerFires(c, k))
    /\ SF_vars(Purge)
    /\ \A n \in Job : /\ WF_vars(StartJob(n)) /\ WF_vars(FinishJob(n))
                      /\ WF_vars(Elapse(n)) /\ WF_vars(Sync(n))
    /\ WF_vars(SyncList)

FairSpec == Spec /\ Fairness

-----------------------------------------------------------------------------
(* Properties.                                                             *)

\* Two controllers may finish the same job (the collector lists the jobs of
\* both owners).  Once a deletion time is set, no other one replaces it, and
\* one that has passed is not moved to the future again.
DeadlineStands ==
    [][\A n \in Job : Exists(n) /\ jobs[n].deleteAfter /\ Exists(n)'
                      => jobs'[n].deleteAfter /\ (n \in elapsed => n \in elapsed')]_vars

\* But for the first reconcile after a start, no controller deletes a job that
\* is at work, or whose deletion time has not passed, whatever it has cached.
DeletedWhenDue ==
    [][\A n \in Job : Exists(n) /\ n \in deleted' /\ ~Purge
                      => jobs[n].phase = "Finished" /\ n \in elapsed]_vars

OneJobEach == \A m, n \in Job : Exists(m) /\ Exists(n) /\ m # n
                                => jobs[m].owner # jobs[n].owner

\* The two calls whose failure no controller recovers from.
Smooth == failed \cap {"create template", "set deleteAfter"} = {}

Pending(c) == worker[c].queue \cup worker[c].timers

\* No finished job is forgotten, whatever order the events and the answers come
\* in, and whoever deletes or creates other jobs meanwhile: the cache has still
\* to hear of it, or its owner has a key to serve - unless the deletion time
\* could not be written.
FinishedJobIsAwaited ==
    "set deleteAfter" \notin failed =>
        \A n \in Job : /\ Exists(n) /\ jobs[n].phase = "Finished"
                       /\ jobs[n].owner = "collector" => CollectorEnabled
                       => seen[n] # jobs[n] \/ Pending(jobs[n].owner) # {}

\* A job that goes on by itself, and whose end is still to be heard of.
UnderWay(n) ==
    /\ Exists(n)
    /\ \/ jobs[n].phase = "New" /\ n \in template
       \/ jobs[n].phase = "Running"
       \/ jobs[n].phase = "Finished" /\ seen[n] # jobs[n]

\* The collector never falls asleep in a cluster without an ImageList: it has a
\* key, is at work, or has a job under way whose end wakes it.
CollectorIsAwake ==
    CollectorEnabled /\ list.gen = 0 /\ "set deleteAfter" \notin failed =>
        \/ Pending("collector") # {} \/ ~At("collector", "idle")
        \/ \E n \in Job : UnderWay(n)

\* A finished job is deleted some day, though calls fail, the two owners may work
\* on the same job, and a queued key may be served for another job; unless an
\* owner sees two of its jobs, which it reports as an error, or one of the two
\* calls above failed.
FinishedJobsGo ==
    [](OneJobEach /\ Smooth) =>
        \A n \in Job : (Exists(n) /\ jobs[n].phase = "Finished") ~> ~Exists(n)

\* Collections recur for ever, across failed calls and restarts, in a cluster
\* without an ImageList: the one key of the collector is never lost.
CollectionRecurs ==
    CollectorEnabled /\ [](OneJobEach /\ Smooth /\ list.gen = 0) =>
        /\ []<>(\E n \in Job : jobs[n].phase = "Running")
        /\ []<>(\A n \in Job : ~Exists(n))

\* An ImageList gets a job with every change (the test "Update imagelist to
\* prune rest of images").
UpdatedListRuns == \A g \in 1 .. MaxUpdates : list.gen >= g ~> list.ran >= g
=============================================================================
