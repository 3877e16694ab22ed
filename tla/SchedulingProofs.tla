-------------------------- MODULE SchedulingProofs --------------------------
(***************************************************************************)
(* Deletion times stand, and only what is due is deleted, for any number   *)
(* of jobs, faults, updates and restarts.  Both controllers decide on what *)
(* they have cached, so the invariant says how far a cache can be trusted: *)
(* what it shows as finished, or as having a deletion time, is and has.    *)
(***************************************************************************)
EXTENDS Scheduling, FiniteSetTheorems, TLAPS

\* A worker that has a template to write has a key and a job.
WorkerType ==
    {w \in [queue : SUBSET Key, timers : SUBSET Key,
            pc : {"idle", "create", "template", "drop"},
            key : Key \cup {None}, job : Job \cup {None}] :
        w.pc \in {"template", "drop"} => w.key \in Key /\ w.job \in Job}

\* A cached job is an earlier version of the same job.
CachesBehind ==
    \A n \in Job : /\ seen[n].phase = "Finished" => jobs[n].phase = "Finished"
                   /\ seen[n].deleteAfter => jobs[n].deleteAfter

\* Only a finished job has a deletion time.
DueJobsFinished == \A n \in Job : jobs[n].deleteAfter => jobs[n].phase = "Finished"

IInv == /\ TypeOK /\ CachesBehind /\ DueJobsFinished
        /\ worker \in [Controllers -> WorkerType]

-----------------------------------------------------------------------------
(* Versions, workers and faults.                                           *)

\* Every change of a version yields a version.
LEMMA VersionBoth ==
    ASSUME NEW v \in Version, v # Absent, NEW d \in BOOLEAN,
           NEW p \in {"New", "Running", "Finished"}
    PROVE  LET w == [v EXCEPT !.phase = p, !.deleteAfter = d]
           IN  w \in Version \ {Absent} /\ w.phase = p /\ w.deleteAfter = d
BY DEF Version, Absent

\* A version of a job that changes its phase keeps the rest.
LEMMA VersionPhase ==
    ASSUME NEW v \in Version, v # Absent, NEW p \in {"New", "Running", "Finished"}
    PROVE  LET w == [v EXCEPT !.phase = p]
           IN  w \in Version \ {Absent} /\ w.phase = p /\ w.deleteAfter = v.deleteAfter
BY DEF Version, Absent

\* A version of a job that is marked for deletion keeps its phase.
LEMMA VersionSet ==
    ASSUME NEW v \in Version, v # Absent, NEW d \in BOOLEAN
    PROVE  LET w == [v EXCEPT !.deleteAfter = d]
           IN  w \in Version \ {Absent} /\ w.phase = v.phase /\ w.deleteAfter = d
BY DEF Version, Absent

\* A name without a job has neither a phase nor a deletion time.
LEMMA AbsentFacts == Absent \in Version /\ Absent.phase = "absent" /\ ~Absent.deleteAfter
BY DEF Absent, Version

\* Whatever ends or continues a reconcile keeps the worker well typed.
LEMMA WorkerMoves ==
    ASSUME worker \in [Controllers -> WorkerType], NEW c \in Controllers, NEW k \in Key,
           NEW pc \in {"create", "template", "drop"}, NEW n \in Job \cup {None},
           n \in Job \/ pc = "create",
           Goes(c, k, pc, n) \/ Done(c, k) \/ Again(c, k) \/ Enqueue(c, k)
             \/ TimerFires(c, k)
    PROVE  worker' \in [Controllers -> WorkerType]
<1>1. worker \in [Controllers -> WorkerType] OBVIOUS
<1>2. worker[c] \in WorkerType BY <1>1
<1>3. Left(c, k) \in SUBSET Key BY <1>2 DEF Left, WorkerType
<1>4. CASE Goes(c, k, pc, n)
  BY <1>1, <1>2, <1>3, <1>4 DEF Goes, WorkerType
<1>5. CASE Done(c, k)
  BY <1>1, <1>2, <1>3, <1>5 DEF Done, Idle, WorkerType
<1>6. CASE Again(c, k)
  BY <1>1, <1>2, <1>3, <1>6 DEF Again, Idle, WorkerType
<1>7. CASE Enqueue(c, k)
  BY <1>1, <1>2, <1>7 DEF Enqueue, WorkerType
<1>8. CASE TimerFires(c, k)
  BY <1>1, <1>2, <1>8 DEF TimerFires, WorkerType
<1> QED BY <1>4, <1>5, <1>6, <1>7, <1>8

\* A failed call is one of those that may fail.
LEMMA FaultsTyped ==
    ASSUME TypeOK, Works \/ \E call \in Calls : Breaks(call)
    PROVE  failed' \subseteq Unreliable
BY DEF TypeOK, Works, Breaks

\* The part of the invariant that is not about the workers and the faults.
Sound ==
    /\ jobs \in [Job -> Version] /\ seen \in [Job -> Version]
    /\ \A n \in Job : seen[n] # Absent \/ n \in deleted => jobs[n] # Absent
    /\ deleted \subseteq Job /\ elapsed \subseteq Job /\ template \subseteq Job
    /\ list \in [gen : 0 .. MaxUpdates, seen : 0 .. MaxUpdates, stale : BOOLEAN,
                ran : 0 .. MaxUpdates]
    /\ restarts \in 0 .. MaxRestarts
    /\ CachesBehind /\ DueJobsFinished

\* The invariant is one of the jobs, one of the workers and one of the faults.
LEMMA Parts ==
    IInv <=> Sound /\ worker \in [Controllers -> WorkerType] /\ failed \subseteq Unreliable
BY DEF IInv, Sound, TypeOK, WorkerType, Cached

\* The same of the next state.
LEMMA PartsNext ==
    IInv' <=> /\ Sound'
              /\ (worker \in [Controllers -> WorkerType])' /\ (failed \subseteq Unreliable)'
BY DEF IInv, Sound, TypeOK, WorkerType, Cached

-----------------------------------------------------------------------------
(* The handlers.                                                           *)

\* A new job takes a name that nobody knows.
LEMMA CreateJobKeeps ==
    ASSUME IInv, NEW c \in Controllers, NEW k \in Key, CreateJob(c, k),
           UNCHANGED <<seen, restarts>>
    PROVE  IInv'
<1>0. /\ Sound /\ TypeOK /\ worker \in [Controllers -> WorkerType]
      /\ UNCHANGED <<deleted, elapsed>>
  BY Parts DEF IInv, CreateJob
<1>1. CASE /\ \/ Breaks("create job") /\ Again(c, k)
              \/ c = "imagelist" /\ Breaks("find kind") /\ Done(c, k)
           /\ UNCHANGED <<jobs, template, list>>
  <2>1. Sound' BY <1>0, <1>1 DEF Sound, CachesBehind, DueJobsFinished
  <2>2. (worker \in [Controllers -> WorkerType])' BY <1>0, <1>1, WorkerMoves
  <2>3. (failed \subseteq Unreliable)' BY <1>0, <1>1, FaultsTyped DEF Calls
  <2> QED BY <2>1, <2>2, <2>3, PartsNext
<1>2. ASSUME NEW n \in Free,
             jobs' = [jobs EXCEPT ![n] = NewJob(c)],
             template' = template \ {n},
             Goes(c, k, "template", n), Works,
             list' = [list EXCEPT !.ran = IF c = "imagelist" THEN list.seen ELSE @]
      PROVE  IInv'
  <2>0. n \in Job /\ jobs[n] = Absent /\ seen[n] = Absent
    BY <1>0, <1>2 DEF Free, Sound
  <2>1. NewJob(c) \in Version /\ NewJob(c) # Absent /\ ~NewJob(c).deleteAfter
    <3>1. list.seen \in 0 .. MaxUpdates
      BY <1>0 DEF Sound
    <3>2. 0 \in 0 .. MaxUpdates
      BY SchedulingAssumption
    <3>3. PICK g \in 0 .. MaxUpdates :
            NewJob(c) = [phase |-> "New", owner |-> c, gen |-> g, deleteAfter |-> FALSE]
      <4>1. CASE c = "imagelist" BY <4>1, <3>1, Zenon DEF NewJob
      <4>2. CASE c # "imagelist" BY <4>2, <3>2, Zenon DEF NewJob
      <4> QED BY <4>1, <4>2
    <3> QED BY <3>3 DEF Version, Absent
  <2>2. list' \in [gen : 0 .. MaxUpdates, seen : 0 .. MaxUpdates, stale : BOOLEAN,
                   ran : 0 .. MaxUpdates]
    BY <1>0, <1>2 DEF Sound
  <2>3. jobs' \in [Job -> Version] /\ jobs'[n] = NewJob(c)
        /\ \A m \in Job : m # n => jobs'[m] = jobs[m]
    BY <1>0, <1>2, <2>0, <2>1 DEF Sound
  <2>4. CachesBehind'
    BY <1>0, <2>0, <2>3, AbsentFacts DEF Sound, CachesBehind
  <2>5. DueJobsFinished'
    BY <1>0, <2>1, <2>3 DEF Sound, DueJobsFinished
  <2>6. \A m \in Job : seen[m] # Absent \/ m \in deleted => jobs'[m] # Absent
    BY <1>0, <2>1, <2>3 DEF Sound
  <2>7. Sound'
    BY <1>0, <1>2, <2>2, <2>3, <2>4, <2>5, <2>6 DEF Sound
  <2>8. (worker \in [Controllers -> WorkerType])' BY <1>0, <1>2, <2>0, WorkerMoves
  <2>9. (failed \subseteq Unreliable)' BY <1>0, <1>2, FaultsTyped
  <2> QED BY <2>7, <2>8, <2>9, PartsNext
<1>3. Free # {} => (CHOOSE n \in Free : TRUE) \in Free
  OBVIOUS
<1> QED BY <1>1, <1>2, <1>3 DEF CreateJob

\* The template has no part in the invariant but its type.
LEMMA ContinuesKeeps ==
    ASSUME IInv, NEW c \in Controllers, Continues(c)
    PROVE  IInv'
<1> DEFINE k == worker[c].key
           n == worker[c].job
<1>0. /\ Sound /\ TypeOK /\ worker \in [Controllers -> WorkerType]
      /\ UNCHANGED <<jobs, seen, deleted, elapsed, list, restarts>>
  BY Parts DEF IInv, Continues, CreateTemplate, DropTemplate
<1>1. k \in Key /\ n \in Job
  <2>1. worker[c] \in WorkerType BY <1>0
  <2>2. worker[c].pc \in {"template", "drop"} BY DEF Continues, At
  <2> QED BY <2>1, <2>2 DEF WorkerType
<1>2. /\ Done(c, k) \/ Again(c, k)
      /\ Works \/ \E call \in Calls : Breaks(call)
      /\ template' \subseteq template \cup {n}
  <2>1. CASE At(c, "template") /\ CreateTemplate(c, k)
    BY <2>1 DEF CreateTemplate, Calls
  <2>2. CASE At(c, "drop") /\ DropTemplate(c, k)
    BY <2>2 DEF DropTemplate, Calls
  <2> QED BY <2>1, <2>2 DEF Continues
<1>3. Sound' BY <1>0, <1>1, <1>2 DEF Sound, CachesBehind, DueJobsFinished
<1>4. (worker \in [Controllers -> WorkerType])' BY <1>0, <1>1, <1>2, WorkerMoves
<1>5. (failed \subseteq Unreliable)' BY <1>0, <1>2, FaultsTyped
<1> QED BY <1>3, <1>4, <1>5, PartsNext

\* A finished job in the cache is finished; a deletion time is set only when
\* the cached version is the latest.
LEMMA HandleFinishedKeeps ==
    ASSUME IInv, NEW c \in Controllers, NEW k \in Key, NEW n \in Job,
           seen[n].phase = "Finished", HandleFinished(c, k, n),
           UNCHANGED <<seen, restarts>>,
           list' \in [gen : 0 .. MaxUpdates, seen : 0 .. MaxUpdates, stale : BOOLEAN,
                      ran : 0 .. MaxUpdates]
    PROVE  IInv'
<1>0. Sound /\ TypeOK /\ worker \in [Controllers -> WorkerType]
  BY Parts DEF IInv
<1>1. /\ Done(c, k) \/ Again(c, k) \/ Goes(c, k, "drop", n)
      /\ Works \/ \E call \in Calls : Breaks(call)
      /\ UNCHANGED template
  BY DEF HandleFinished, SetDeleteAfter, DeleteJob, Calls, objects
<1>2. /\ deleted' \subseteq Job
      /\ elapsed' \subseteq Job
      /\ \A m \in deleted' : m \in deleted \/ (m = n /\ Exists(n))
  <2>1. CASE SetDeleteAfter(c, k, n)
    BY <2>1, <1>0 DEF SetDeleteAfter, Sound
  <2>2. CASE DeleteJob(c, k, n)
    BY <2>2, <1>0 DEF DeleteJob, Sound
  <2>3. CASE UNCHANGED objects
    BY <2>3, <1>0 DEF objects, Sound
  <2> QED BY <2>1, <2>2, <2>3 DEF HandleFinished
<1>3. CASE UNCHANGED jobs
  <2>1. Sound' BY <1>0, <1>1, <1>2, <1>3 DEF Sound, CachesBehind, DueJobsFinished, Exists
  <2> QED BY <2>1, <1>0, <1>1, WorkerMoves, FaultsTyped, PartsNext
<1>4. CASE /\ Exists(n) /\ seen[n] = jobs[n]
           /\ jobs' = [jobs EXCEPT ![n].deleteAfter = TRUE]
  <2>1. jobs[n] \in Version /\ jobs[n] # Absent /\ jobs[n].phase = "Finished"
    BY <1>0, <1>4 DEF Sound, Exists
  <2>2. /\ jobs' \in [Job -> Version]
        /\ jobs'[n] # Absent /\ jobs'[n].phase = "Finished" /\ jobs'[n].deleteAfter
        /\ \A m \in Job : m # n => jobs'[m] = jobs[m]
    BY <1>0, <1>4, <2>1, VersionSet DEF Sound
  <2>3. CachesBehind' /\ DueJobsFinished'
    BY <1>0, <2>2 DEF Sound, CachesBehind, DueJobsFinished
  <2>4. Sound' BY <1>0, <1>1, <1>2, <2>2, <2>3 DEF Sound
  <2> QED BY <2>4, <1>0, <1>1, WorkerMoves, FaultsTyped, PartsNext
<1> QED BY <1>3, <1>4 DEF HandleFinished, SetDeleteAfter, DeleteJob, objects

-----------------------------------------------------------------------------
(* The controllers.                                                        *)

\* The purge of the jobs that a start finds keeps the invariant.
LEMMA PurgeKeeps == ASSUME IInv, Purge PROVE IInv'
<1>0. /\ Sound /\ TypeOK /\ worker \in [Controllers -> WorkerType]
      /\ UNCHANGED <<jobs, seen, elapsed, template, list, restarts>>
  BY Parts DEF IInv, Purge
<1>1. /\ deleted' \subseteq deleted \cup Cached
      /\ \/ Goes("collector", FirstReconcile, "create", None)
         \/ Again("collector", FirstReconcile)
      /\ Works \/ \E call \in Calls : Breaks(call)
  BY DEF Purge, Calls
<1>2. Sound' BY <1>0, <1>1 DEF Sound, CachesBehind, DueJobsFinished, Cached
<1>3. (worker \in [Controllers -> WorkerType])'
  BY <1>0, <1>1, WorkerMoves DEF Controllers, Key
<1> QED BY <1>0, <1>1, <1>2, <1>3, FaultsTyped, PartsNext

\* The job that is created after the purge keeps the invariant.
LEMMA AfterPurgeKeeps == ASSUME IInv, AfterPurge PROVE IInv'
BY CreateJobKeeps DEF AfterPurge, Controllers, Key

\* A reconcile of the collector's controller keeps the invariant.
LEMMA CollectorKeeps ==
    ASSUME IInv, NEW k \in Key, CollectorReconciles(k)
    PROVE  IInv'
<1>0. /\ Sound /\ TypeOK /\ worker \in [Controllers -> WorkerType]
      /\ UNCHANGED <<seen, restarts>> /\ "collector" \in Controllers
  BY Parts DEF IInv, CollectorReconciles, Controllers
<1>1. CASE CreateJob("collector", k) BY <1>0, <1>1, CreateJobKeeps
<1>2. ASSUME NEW n \in Job, seen[n].phase = "Finished",
             HandleFinished("collector", k, n), UNCHANGED list
      PROVE  IInv'
  BY <1>0, <1>2, HandleFinishedKeeps DEF Sound
<1>3. CASE Again("collector", k) /\ Works /\ UNCHANGED <<objects, list>>
  <2>1. Sound' BY <1>0, <1>3 DEF Sound, CachesBehind, DueJobsFinished, objects
  <2> QED BY <2>1, <1>0, <1>3, WorkerMoves, FaultsTyped, PartsNext
<1> QED BY <1>1, <1>2, <1>3 DEF CollectorReconciles, Cached

\* A reconcile of an image list keeps the invariant.
LEMMA ListKeeps == ASSUME IInv, ListReconciles PROVE IInv'
<1>0. /\ Sound /\ TypeOK /\ worker \in [Controllers -> WorkerType]
      /\ UNCHANGED <<seen, restarts>> /\ "imagelist" \in Controllers /\ ImageList \in Key
  BY Parts DEF IInv, ListReconciles, Controllers, Key
<1>1. CASE CreateJob("imagelist", ImageList) BY <1>0, <1>1, CreateJobKeeps
<1>2. ASSUME NEW n \in Job, seen[n].phase = "Finished",
             list' = [list EXCEPT !.stale = TRUE],
             HandleFinished("imagelist", ImageList, n)
      PROVE  IInv'
  <2>1. list' \in [gen : 0 .. MaxUpdates, seen : 0 .. MaxUpdates, stale : BOOLEAN,
                   ran : 0 .. MaxUpdates]
    BY <1>0, <1>2 DEF Sound
  <2> QED BY <1>0, <1>2, <2>1, HandleFinishedKeeps
<1>3. CASE /\ Again("imagelist", ImageList) /\ UNCHANGED <<objects, list>>
           /\ Works \/ \E call \in Calls : Breaks(call)
  <2>1. Sound' BY <1>0, <1>3 DEF Sound, CachesBehind, DueJobsFinished, objects
  <2> QED BY <2>1, <1>0, <1>3, WorkerMoves, FaultsTyped, PartsNext
<1> QED BY <1>1, <1>2, <1>3 DEF ListReconciles, HandleOwnFinished, Owned, Cached, Calls

-----------------------------------------------------------------------------
(* The imagejob controller, time and the watches.                          *)

\* Every step of a job but its end leaves phase "Finished" and the deletion
\* time alone; the end of a job without a template sets both.
LEMMA JobMoves ==
    ASSUME IInv, NEW n \in Job, StartJob(n) \/ FinishJob(n) \/ Elapse(n)
    PROVE  IInv'
<1>0. Sound /\ UNCHANGED <<deleted, template, seen, list, worker, failed, restarts>>
  BY Parts DEF IInv, StartJob, FinishJob, Elapse
<1>1. CASE Elapse(n)
  <2>1. UNCHANGED jobs /\ elapsed' \subseteq Job BY <1>0, <1>1 DEF Elapse, Sound
  <2>2. Sound' BY <1>0, <2>1 DEF Sound, CachesBehind, DueJobsFinished
  <2> QED BY <1>0, <2>2, Parts, PartsNext
<1>2. CASE StartJob(n) \/ FinishJob(n)
  <2>1. jobs[n] \in Version /\ jobs[n] # Absent /\ jobs[n].phase # "Finished"
    BY <1>0, <1>2 DEF StartJob, FinishJob, Exists, Sound
  <2>2. ~jobs[n].deleteAfter /\ seen[n].phase # "Finished" /\ ~seen[n].deleteAfter
    BY <1>0, <2>1 DEF Sound, CachesBehind, DueJobsFinished
  <2>3. /\ jobs' \in [Job -> Version]
        /\ jobs'[n] # Absent /\ (jobs'[n].deleteAfter => jobs'[n].phase = "Finished")
        /\ \A m \in Job : m # n => jobs'[m] = jobs[m]
        /\ UNCHANGED elapsed
    <3> DEFINE Moved(v) == /\ jobs' = [jobs EXCEPT ![n] = v] /\ UNCHANGED elapsed
                           /\ v \in Version \ {Absent}
                           /\ v.deleteAfter => v.phase = "Finished"
    <3>1. ASSUME StartJob(n) PROVE \E v : Moved(v)
      <4> DEFINE v == [jobs[n] EXCEPT !.phase = "Running"]
      <4>1. v \in Version \ {Absent} /\ ~v.deleteAfter
        BY <2>1, <2>2, VersionPhase
      <4>2. jobs' = [jobs EXCEPT ![n] = v] /\ UNCHANGED elapsed
        BY <3>1, <1>0 DEF StartJob
      <4>3. Moved(v) BY <4>1, <4>2
      <4> QED BY <4>3
    <3>2. ASSUME FinishJob(n) PROVE \E v : Moved(v)
      <4>1. PICK due \in BOOLEAN :
              jobs' = [jobs EXCEPT ![n].phase = "Finished", ![n].deleteAfter = due]
        BY <3>2 DEF FinishJob
      <4> DEFINE v == [jobs[n] EXCEPT !.phase = "Finished", !.deleteAfter = due]
      <4>2. v \in Version \ {Absent} /\ v.phase = "Finished"
        BY <2>1, VersionBoth
      <4>3. jobs' = [jobs EXCEPT ![n] = v]
        BY <1>0, <4>1 DEF Sound
      <4>4. Moved(v) BY <3>2, <4>2, <4>3 DEF FinishJob
      <4> QED BY <4>4
    <3>3. PICK v : Moved(v) BY <1>2, <3>1, <3>2
    <3> QED BY <3>3, <1>0 DEF Sound
  <2>4. CachesBehind' /\ DueJobsFinished'
    BY <1>0, <2>2, <2>3 DEF Sound, CachesBehind, DueJobsFinished
  <2>5. Sound' BY <1>0, <2>3, <2>4 DEF Sound
  <2> QED BY <1>0, <2>5, Parts, PartsNext
<1> QED BY <1>1, <1>2

\* A cache that follows the server does not run ahead of it.
LEMMA SyncKeeps == ASSUME IInv, NEW n \in Job, Sync(n) PROVE IInv'
<1>0. /\ Sound /\ worker \in [Controllers -> WorkerType] /\ failed \subseteq Unreliable
      /\ UNCHANGED <<template, list, failed, restarts>>
  BY Parts DEF IInv, Sync, Created, Updated, Gone, objects
<1>1. CASE Created(n)
  <2> DEFINE v == [jobs[n] EXCEPT !.phase = "New", !.deleteAfter = FALSE]
  <2>1. v \in Version \ {Absent} /\ v.phase = "New" /\ ~v.deleteAfter
    BY <1>0, <1>1, VersionBoth DEF Created, Sound
  <2>2. UNCHANGED <<jobs, deleted, elapsed, worker>> /\ seen' = [seen EXCEPT ![n] = v]
    BY <1>1 DEF Created, objects
  <2> HIDE DEF v
  <2>3. CachesBehind' /\ DueJobsFinished'
    BY <1>0, <2>1, <2>2 DEF Sound, CachesBehind, DueJobsFinished
  <2>4. Sound' BY <1>0, <1>1, <2>1, <2>2, <2>3 DEF Sound, Created
  <2> QED BY <1>0, <2>2, <2>4, PartsNext
<1>2. CASE Updated(n)
  <2>1. /\ UNCHANGED <<jobs, deleted, elapsed>> /\ seen' = [seen EXCEPT ![n] = jobs[n]]
        /\ \/ UNCHANGED worker
           \/ Enqueue("collector", n)
           \/ Enqueue("imagelist", ImageList)
    BY <1>2 DEF Updated, objects
  <2>2. Sound' BY <1>0, <2>1, <1>2 DEF Sound, CachesBehind, DueJobsFinished, Updated
  <2>3. (worker \in [Controllers -> WorkerType])'
    BY <1>0, <2>1, WorkerMoves DEF Controllers, Key
  <2> QED BY <1>0, <2>2, <2>3, PartsNext
<1>3. CASE Gone(n)
  <2>1. /\ UNCHANGED worker
        /\ seen' = [seen EXCEPT ![n] = Absent] /\ jobs' = [jobs EXCEPT ![n] = Absent]
        /\ deleted' = deleted \ {n} /\ elapsed' = elapsed \ {n}
    BY <1>3 DEF Gone
  <2>2. CachesBehind' /\ DueJobsFinished'
    BY <1>0, <2>1, AbsentFacts DEF Sound, CachesBehind, DueJobsFinished
  <2>3. Sound' BY <1>0, <2>1, <2>2, AbsentFacts DEF Sound
  <2> QED BY <1>0, <2>1, <2>3, PartsNext
<1> QED BY <1>1, <1>2, <1>3 DEF Sync

\* A list that is edited or seen is no job.
LEMMA ListMoves == ASSUME IInv, UpdateList \/ SyncList PROVE IInv'
<1>0. /\ Sound /\ worker \in [Controllers -> WorkerType] /\ failed \subseteq Unreliable
      /\ UNCHANGED <<jobs, deleted, elapsed, template, seen, failed, restarts>>
  BY Parts DEF IInv, UpdateList, SyncList, objects
<1>1. list' \in [gen : 0 .. MaxUpdates, seen : 0 .. MaxUpdates, stale : BOOLEAN,
                 ran : 0 .. MaxUpdates]
  <2>1. CASE SyncList BY <1>0, <2>1 DEF SyncList, Sound
  <2>2. CASE UpdateList
    <3>1. list.gen + 1 \in 0 .. MaxUpdates
      BY <1>0, <2>2, SchedulingAssumption DEF UpdateList, Sound
    <3> QED BY <1>0, <2>2, <3>1 DEF UpdateList, Sound
  <2> QED BY <2>1, <2>2
<1>2. Sound' BY <1>0, <1>1 DEF Sound, CachesBehind, DueJobsFinished
<1>3. UNCHANGED worker \/ Enqueue("imagelist", ImageList)
  BY DEF UpdateList, SyncList
<1>4. (worker \in [Controllers -> WorkerType])'
  BY <1>0, <1>3, WorkerMoves DEF Controllers, Key
<1> QED BY <1>0, <1>2, <1>4, PartsNext

\* A worker that has just started has nothing in hand.
LEMMA StartedTyped == ASSUME NEW g PROVE Started(g) \in [Controllers -> WorkerType]
<1>1. FirstReconcile \in Key /\ ImageList \in Key BY DEF Key
<1>2. \A q, t \in SUBSET Key : [Idle EXCEPT !.timers = t, !.queue = q] \in WorkerType
  BY DEF Idle, WorkerType
<1> QED BY <1>1, <1>2 DEF Started

\* A restart forgets the queues and the workers, not the jobs.
LEMMA RestartKeeps == ASSUME IInv, Restart PROVE IInv'
<1>0. Sound /\ failed \subseteq Unreliable /\ UNCHANGED failed
  BY Parts DEF Restart
<1>1. /\ \A n \in Job : jobs'[n] = IF Exists(n) THEN jobs[n] ELSE Absent
      /\ jobs' \in [Job -> Version] /\ seen' = jobs'
  BY <1>0, AbsentFacts DEF Restart, Sound
<1>2. CachesBehind' /\ DueJobsFinished'
  BY <1>0, <1>1, AbsentFacts DEF Sound, CachesBehind, DueJobsFinished
<1>3. list' \in [gen : 0 .. MaxUpdates, seen : 0 .. MaxUpdates, stale : BOOLEAN,
                 ran : 0 .. MaxUpdates]
  BY <1>0 DEF Restart, Sound
<1>4. restarts' \in 0 .. MaxRestarts
  BY <1>0, SchedulingAssumption DEF Restart, Sound
<1>5. /\ deleted' = {} /\ elapsed' \subseteq Job /\ template' \subseteq Job
  BY <1>0 DEF Restart, Sound
<1>6. Sound' BY <1>1, <1>2, <1>3, <1>4, <1>5 DEF Sound
<1>7. (worker \in [Controllers -> WorkerType])' BY StartedTyped DEF Restart
<1> QED BY <1>0, <1>6, <1>7, PartsNext

-----------------------------------------------------------------------------
(* The invariant.                                                          *)

\* At the start the invariant holds.
LEMMA Initially == Init => IInv
<1> SUFFICES ASSUME Init PROVE IInv OBVIOUS
<1>1. 0 \in 0 .. MaxUpdates /\ 0 \in 0 .. MaxRestarts BY SchedulingAssumption
<1>2. jobs \in [Job -> Version] /\ seen \in [Job -> Version]
      /\ \A n \in Job : jobs[n] = Absent /\ seen[n] = Absent
  BY AbsentFacts DEF Init
<1>3. CachesBehind /\ DueJobsFinished
  BY <1>2, AbsentFacts DEF CachesBehind, DueJobsFinished
<1>4. Sound BY <1>1, <1>2, <1>3 DEF Sound, Init
<1> QED BY <1>4, StartedTyped, Parts DEF Init

\* Every step keeps the invariant.
LEMMA Inductive == IInv /\ [Next]_vars => IInv'
<1> SUFFICES ASSUME IInv, [Next]_vars PROVE IInv' OBVIOUS
<1>0. Sound /\ worker \in [Controllers -> WorkerType] /\ failed \subseteq Unreliable
  BY Parts
<1>1. ASSUME NEW c \in Controllers, Serve(c) PROVE IInv'
  BY <1>1, ContinuesKeeps, ListKeeps, PurgeKeeps, AfterPurgeKeeps, CollectorKeeps
     DEF Serve
<1>2. ASSUME NEW c \in Controllers, NEW k \in Key, TimerFires(c, k) PROVE IInv'
  <2>1. UNCHANGED <<objects, seen, list, failed, restarts>> BY <1>2 DEF TimerFires
  <2>2. Sound' BY <1>0, <2>1 DEF Sound, CachesBehind, DueJobsFinished, objects
  <2>3. (worker \in [Controllers -> WorkerType])' BY <1>0, <1>2, WorkerMoves
  <2> QED BY <1>0, <2>1, <2>2, <2>3, PartsNext
<1>3. ASSUME NEW n \in Job, StartJob(n) \/ FinishJob(n) \/ Elapse(n) \/ Sync(n)
      PROVE  IInv'
  BY <1>3, JobMoves, SyncKeeps
<1>4. CASE UNCHANGED vars
  <2>1. Sound' BY <1>0, <1>4 DEF Sound, CachesBehind, DueJobsFinished, vars, objects
  <2> QED BY <1>0, <1>4, <2>1, PartsNext DEF vars
<1> QED BY <1>1, <1>2, <1>3, <1>4, ListMoves, RestartKeeps DEF Next

\* The invariant holds in every reachable state of the controllers.
THEOREM Invariance == Spec => []IInv
BY Initially, Inductive, PTL DEF Spec

\* The controllers, their caches and the objects have their types: what is
\* cached or being deleted is a job the server had.
THEOREM TypeCorrect == Spec => []TypeOK
BY Invariance, PTL DEF IInv

-----------------------------------------------------------------------------
(* Deletions.                                                              *)

\* A handler deletes the job it was called for, when its time has come.
LEMMA HandledDeletion ==
    ASSUME IInv, NEW c \in Controllers, NEW k \in Key, NEW m \in Job, NEW n \in Job,
           seen[m].phase = "Finished", HandleFinished(c, k, m),
           n \in deleted', n \notin deleted
    PROVE  jobs[n].phase = "Finished" /\ n \in elapsed
<1>1. CASE SetDeleteAfter(c, k, m) BY <1>1 DEF SetDeleteAfter
<1>2. CASE UNCHANGED objects BY <1>2 DEF objects
<1>3. CASE m \in elapsed /\ DeleteJob(c, k, m)
  <2>1. n = m BY <1>3 DEF DeleteJob
  <2> QED BY <1>3, <2>1 DEF IInv, CachesBehind
<1> QED BY <1>1, <1>2, <1>3 DEF HandleFinished

\* However many controllers handle a job, and from whatever cache, only a
\* finished job whose deletion time has passed is deleted, but for the first
\* reconcile after a start.
THEOREM OnlyDueDeleted == Spec => DeletedWhenDue
<1> DEFINE Deletion == \A n \in Job : Exists(n) /\ n \in deleted' /\ ~Purge
                          => jobs[n].phase = "Finished" /\ n \in elapsed
<1>1. ASSUME IInv, [Next]_vars PROVE [Deletion]_vars
  <2> SUFFICES ASSUME Next, NEW n \in Job, n \notin deleted, n \in deleted', ~Purge
               PROVE  jobs[n].phase = "Finished" /\ n \in elapsed
    BY <1>1 DEF Exists
  <2>1. ASSUME NEW c \in Controllers, Continues(c) PROVE FALSE
    BY <2>1 DEF Continues, CreateTemplate, DropTemplate
  <2>2. ASSUME NEW c, NEW k, CreateJob(c, k) PROVE FALSE
    BY <2>2 DEF CreateJob
  <2>3. ASSUME NEW k \in Key, CollectorReconciles(k)
        PROVE  jobs[n].phase = "Finished" /\ n \in elapsed
    <3>1. ASSUME NEW m \in Job, seen[m].phase = "Finished",
                 HandleFinished("collector", k, m)
          PROVE  jobs[n].phase = "Finished" /\ n \in elapsed
      BY <1>1, <3>1, HandledDeletion DEF Controllers
    <3> QED BY <2>2, <2>3, <3>1 DEF CollectorReconciles, Cached, objects
  <2>4. ASSUME ListReconciles
        PROVE  jobs[n].phase = "Finished" /\ n \in elapsed
    <3>1. ASSUME NEW m \in Job, seen[m].phase = "Finished",
                 HandleFinished("imagelist", ImageList, m)
          PROVE  jobs[n].phase = "Finished" /\ n \in elapsed
      BY <1>1, <3>1, HandledDeletion DEF Controllers, Key
    <3> QED BY <2>2, <2>4, <3>1
            DEF ListReconciles, HandleOwnFinished, Owned, Cached, objects
  <2>5. ASSUME NEW c \in Controllers, Serve(c)
        PROVE  jobs[n].phase = "Finished" /\ n \in elapsed
    BY <2>1, <2>2, <2>3, <2>4, <2>5 DEF Serve, AfterPurge
  <2>6. ASSUME NEW c \in Controllers, NEW k \in Key, TimerFires(c, k) PROVE FALSE
    BY <2>6 DEF TimerFires, objects
  <2>7. ASSUME NEW m \in Job, StartJob(m) \/ FinishJob(m) \/ Elapse(m) PROVE FALSE
    BY <2>7 DEF StartJob, FinishJob, Elapse
  <2>8. ASSUME NEW m \in Job, Sync(m) PROVE FALSE
    BY <2>8 DEF Sync, Created, Updated, Gone, objects
  <2>9. ASSUME SyncList \/ UpdateList \/ Restart PROVE FALSE
    BY <2>9 DEF SyncList, UpdateList, Restart, objects
  <2> QED BY <2>5, <2>6, <2>7, <2>8, <2>9 DEF Next
<1> QED BY <1>1, Invariance, PTL DEF Spec, DeletedWhenDue

-----------------------------------------------------------------------------
(* Deletion times.                                                         *)

\* A deletion time is set only for a job whose latest version has none.
LEMMA HandledDeadline ==
    ASSUME IInv, NEW c \in Controllers, NEW k \in Key, NEW m \in Job, NEW n \in Job,
           HandleFinished(c, k, m), jobs[n].deleteAfter
    PROVE  jobs'[n].deleteAfter /\ (n \in elapsed => n \in elapsed')
<1>1. CASE UNCHANGED <<jobs, elapsed>> BY <1>1
<1>2. CASE /\ seen[m] = jobs[m] /\ ~seen[m].deleteAfter
           /\ jobs' = [jobs EXCEPT ![m].deleteAfter = TRUE]
           /\ elapsed' = elapsed \ {m}
  <2>1. jobs'[n] = jobs[n] /\ n # m BY <1>2 DEF IInv, TypeOK
  <2> QED BY <1>2, <2>1
<1> QED BY <1>1, <1>2 DEF HandleFinished, SetDeleteAfter, DeleteJob, objects

\* Two controllers may finish one job, each from its own reading: the deletion
\* time that was set first stands, and once it has passed it has passed.
THEOREM DeadlinesKept == Spec => DeadlineStands
<1> DEFINE Deadline == \A n \in Job : Exists(n) /\ jobs[n].deleteAfter /\ Exists(n)'
                          => jobs'[n].deleteAfter /\ (n \in elapsed => n \in elapsed')
<1>1. ASSUME IInv, [Next]_vars PROVE [Deadline]_vars
  <2> DEFINE Stands(n) == jobs'[n].deleteAfter /\ (n \in elapsed => n \in elapsed')
  <2> SUFFICES ASSUME Next, NEW n \in Job, n \notin deleted, jobs[n] # Absent,
                      jobs[n].deleteAfter, jobs'[n] # Absent
               PROVE  Stands(n)
    BY <1>1 DEF Exists
  <2>0. Sound BY <1>1, Parts
  <2>1. ASSUME UNCHANGED <<jobs, elapsed>> PROVE Stands(n)
    BY <2>1
  <2>2. ASSUME NEW c, NEW k, CreateJob(c, k) PROVE Stands(n)
    <3>1. CASE UNCHANGED jobs BY <2>1, <2>2, <3>1 DEF CreateJob
    <3>2. ASSUME NEW m \in Free, jobs' = [jobs EXCEPT ![m] = NewJob(c)]
          PROVE  Stands(n)
      <4>1. m # n BY <3>2 DEF Free
      <4> QED BY <2>0, <2>2, <3>2, <4>1 DEF CreateJob, Sound
    <3> QED BY <2>2, <3>1, <3>2 DEF CreateJob
  <2>3. ASSUME NEW k \in Key, CollectorReconciles(k) PROVE Stands(n)
    <3>1. ASSUME NEW m \in Job, HandleFinished("collector", k, m) PROVE Stands(n)
      BY <1>1, <3>1, HandledDeadline DEF Controllers
    <3> QED BY <2>1, <2>2, <2>3, <3>1 DEF CollectorReconciles, Cached, objects
  <2>4. ASSUME ListReconciles PROVE Stands(n)
    <3>1. ASSUME NEW m \in Job, HandleFinished("imagelist", ImageList, m)
          PROVE  Stands(n)
      BY <1>1, <3>1, HandledDeadline DEF Controllers, Key
    <3> QED BY <2>1, <2>2, <2>4, <3>1
            DEF ListReconciles, HandleOwnFinished, Owned, Cached, objects
  <2>5. ASSUME NEW c \in Controllers, Serve(c) PROVE Stands(n)
    <3>1. CASE Continues(c) BY <2>1, <3>1 DEF Continues, CreateTemplate, DropTemplate
    <3>2. CASE Purge BY <2>1, <3>2 DEF Purge
    <3>3. CASE AfterPurge BY <2>2, <3>3 DEF AfterPurge
    <3> QED BY <2>3, <2>4, <2>5, <3>1, <3>2, <3>3 DEF Serve
  <2>6. ASSUME NEW c \in Controllers, NEW k \in Key, TimerFires(c, k) PROVE Stands(n)
    BY <2>1, <2>6 DEF TimerFires, objects
  <2>7. ASSUME NEW m \in Job, StartJob(m) \/ FinishJob(m) PROVE Stands(n)
    <3>1. m # n /\ UNCHANGED elapsed
      BY <1>1, <2>7 DEF StartJob, FinishJob, IInv, DueJobsFinished
    <3>2. jobs'[n] = jobs[n]
      BY <2>0, <2>7, <3>1 DEF StartJob, FinishJob, Sound
    <3> QED BY <3>1, <3>2
  <2>8. ASSUME NEW m \in Job, Elapse(m) PROVE Stands(n)
    BY <2>8 DEF Elapse
  <2>9. ASSUME NEW m \in Job, Sync(m) PROVE Stands(n)
    <3>1. CASE Created(m) \/ Updated(m) BY <2>1, <3>1 DEF Created, Updated, objects
    <3>2. CASE Gone(m)
      <4>1. m # n BY <3>2 DEF Gone
      <4> QED BY <2>0, <3>2, <4>1 DEF Gone, Sound
    <3> QED BY <2>9, <3>1, <3>2 DEF Sync
  <2>10. ASSUME SyncList \/ UpdateList PROVE Stands(n)
    BY <2>1, <2>10 DEF SyncList, UpdateList, objects
  <2>11. ASSUME Restart PROVE Stands(n)
    BY <2>11 DEF Restart, Exists
  <2> QED BY <2>5, <2>6, <2>7, <2>8, <2>9, <2>10, <2>11 DEF Next
<1> QED BY <1>1, Invariance, PTL DEF Spec, DeadlineStands
-----------------------------------------------------------------------------
(* No finished job is forgotten, and the collector does not fall asleep.   *)
(* Keys are dropped when a handler returns an empty result; so what the    *)
(* invariant adds is why something else is left to wake the controller:    *)
(* what a deleted job that is still cached was deleted for, and what the   *)
(* job in the hands of a worker looks like.                                *)

\* Only cached jobs are deleted.
DeletedAreCached == \A n \in deleted : seen[n] # Absent

\* Without an ImageList its controller has nothing to do and no job.
ListUnknown ==
    list.gen = 0 =>
        /\ list.seen = 0
        /\ worker["imagelist"].pc = "idle"
        /\ worker["imagelist"].queue = {} /\ worker["imagelist"].timers = {}
        /\ \A n \in Job : jobs[n] # Absent => jobs[n].owner = "collector"

\* A template is dropped after its job, and written before the job starts.
DroppedAreDeleted ==
    \A c \in Controllers : worker[c].pc = "drop" => ~Exists(worker[c].job)

WrittenAreNew ==
    list.gen = 0 /\ worker["collector"].pc = "template" =>
        /\ Exists(worker["collector"].job)
        /\ jobs[worker["collector"].job].phase = "New"
        /\ worker["collector"].job \notin template

\* A job deleted by the first reconcile is replaced by another one.
Replaced(n) ==
    \/ seen[n].deleteAfter
    \/ FirstReconcile \in worker["collector"].queue \cup worker["collector"].timers
    \/ worker["collector"].pc # "idle" /\ worker["collector"].key = FirstReconcile
    \/ \E m \in Job : Exists(m) /\ (m \in template \/ jobs[m].phase # "New")

PurgedAreReplaced == list.gen = 0 => \A n \in deleted : Replaced(n)

WInv == /\ DeletedAreCached /\ ListUnknown /\ DroppedAreDeleted /\ WrittenAreNew
        /\ PurgedAreReplaced

\* The other worker goes its own way, and at most the key that is served is
\* dropped.
Drops(c, k) ==
    /\ \A d \in Controllers : d # c => worker'[d] = worker[d]
    /\ worker[c].queue \ {k} \subseteq worker'[c].queue
    /\ worker[c].timers \subseteq worker'[c].timers
    /\ worker[c].pc # "idle" => worker[c].queue \subseteq worker'[c].queue

\* A reconcile that goes on keeps the other keys.
LEMMA GoesOn ==
    ASSUME worker \in [Controllers -> WorkerType], NEW c \in Controllers, NEW k \in Key,
           NEW pc, NEW n, Goes(c, k, pc, n)
    PROVE  Drops(c, k) /\ worker'[c].pc = pc /\ worker'[c].key = k /\ worker'[c].job = n
BY DEF Goes, Left, At, Drops

\* A reconcile that is done keeps the other keys.
LEMMA IsDone ==
    ASSUME worker \in [Controllers -> WorkerType], NEW c \in Controllers, NEW k \in Key,
           Done(c, k)
    PROVE  Drops(c, k) /\ worker'[c].pc = "idle"
BY DEF Done, Idle, Left, At, Drops

\* A reconcile that is to be done again keeps its key, too.
LEMMA ComesBack ==
    ASSUME worker \in [Controllers -> WorkerType], NEW c \in Controllers, NEW k \in Key,
           Again(c, k)
    PROVE  Drops(c, k) /\ worker'[c].pc = "idle" /\ k \in worker'[c].timers
BY DEF Again, Idle, Left, At, Drops

\* A key that comes from a timer or with an event changes the queue only.
LEMMA Queued ==
    ASSUME worker \in [Controllers -> WorkerType], NEW c \in Controllers, NEW k \in Key,
           Enqueue(c, k) \/ TimerFires(c, k)
    PROVE  /\ \A d \in Controllers :
                 /\ worker[d].queue \cup worker[d].timers
                    \subseteq worker'[d].queue \cup worker'[d].timers
                 /\ worker'[d].pc = worker[d].pc /\ worker'[d].key = worker[d].key
                 /\ worker'[d].job = worker[d].job
           /\ k \in worker'[c].queue
           /\ \A d \in Controllers : d # c => worker'[d] = worker[d]
BY DEF Enqueue, TimerFires, WorkerType

\* What becomes of a finished job.
LEMMA Handled ==
    ASSUME IInv, NEW c \in Controllers, NEW k \in Key, NEW m \in Job,
           seen[m].phase = "Finished", HandleFinished(c, k, m)
    PROVE  \/ Again(c, k) /\ UNCHANGED objects
           \/ /\ Goes(c, k, "drop", m) /\ UNCHANGED <<jobs, elapsed, template>>
              /\ Exists(m) /\ seen[m].deleteAfter /\ deleted' = deleted \cup {m}
           \/ /\ Done(c, k) /\ UNCHANGED <<deleted, template>> /\ ~seen[m].deleteAfter
              /\ \/ /\ UNCHANGED jobs
                    /\ ~Exists(m) \/ seen[m] # jobs[m] \/ "set deleteAfter" \in failed'
                 \/ /\ Exists(m) /\ jobs'[m] # Absent /\ jobs'[m].phase = jobs[m].phase
                    /\ jobs'[m].owner = jobs[m].owner /\ jobs'[m].deleteAfter
                    /\ \A n \in Job : n # m => jobs'[n] = jobs[n]
<1>1. CASE SetDeleteAfter(c, k, m) /\ ~seen[m].deleteAfter
  <2>1. CASE /\ UNCHANGED jobs
             /\ (~Exists(m) \/ seen[m] # jobs[m]) \/ Breaks("set deleteAfter")
    BY <1>1, <2>1 DEF SetDeleteAfter, Breaks
  <2>2. CASE Exists(m) /\ jobs' = [jobs EXCEPT ![m].deleteAfter = TRUE]
    <3>1. jobs[m] \in Version /\ jobs[m] # Absent /\ jobs \in [Job -> Version]
      BY <2>2 DEF IInv, TypeOK, Exists
    <3>2. [jobs[m] EXCEPT !.deleteAfter = TRUE] # Absent
      BY <3>1, VersionSet
    <3>3. jobs[m].owner = [jobs[m] EXCEPT !.deleteAfter = TRUE].owner
      BY <3>1 DEF Version, Absent
    <3>4. /\ jobs'[m] = [jobs[m] EXCEPT !.deleteAfter = TRUE]
          /\ \A n \in Job : n # m => jobs'[n] = jobs[n]
      BY <2>2, <3>1
    <3>5. jobs'[m].phase = jobs[m].phase /\ jobs'[m].deleteAfter
      BY <3>1, <3>4, VersionSet
    <3> QED BY <1>1, <2>2, <3>2, <3>3, <3>4, <3>5 DEF SetDeleteAfter
  <2> QED BY <1>1, <2>1, <2>2 DEF SetDeleteAfter
<1>2. CASE Again(c, k) /\ UNCHANGED objects
  BY <1>2
<1>3. CASE DeleteJob(c, k, m) /\ seen[m].deleteAfter
  BY <1>3 DEF DeleteJob, objects
<1> QED BY <1>1, <1>2, <1>3 DEF HandleFinished
\* A job is created by the collector when no job is cached or after a purge; by
\* the other controller only for an ImageList.
LEMMA CreateJobReplaces ==
    ASSUME IInv, IInv', WInv, NEW c \in Controllers, NEW k \in Key, CreateJob(c, k),
           UNCHANGED seen,
           c = "imagelist" => list.gen # 0,
           c = "collector" => k = FirstReconcile \/ Cached = {}
    PROVE  WInv'
<1>0. /\ worker \in [Controllers -> WorkerType] /\ UNCHANGED <<deleted, elapsed, seen>>
      /\ list'.gen = list.gen /\ list'.seen = list.seen
      /\ c = "imagelist" \/ c = "collector"
      /\ "collector" \in Controllers /\ "imagelist" \in Controllers
  BY DEF IInv, TypeOK, CreateJob, Controllers
<1>1. DeletedAreCached'
  BY <1>0 DEF WInv, DeletedAreCached
<1>2. ASSUME c = "collector"
      PROVE  \/ k = FirstReconcile
             \/ \A n \in deleted : FALSE
  BY <1>0, <1>2 DEF WInv, DeletedAreCached, Cached, IInv, TypeOK
<1>3. CASE UNCHANGED <<jobs, template>> /\ (Again(c, k) \/ (c = "imagelist" /\ Done(c, k)))
  <2>1. Drops(c, k) /\ worker'[c].pc = "idle"
    BY <1>0, <1>3, IsDone, ComesBack
  <2>2. ListUnknown' /\ DroppedAreDeleted' /\ WrittenAreNew'
    BY <1>0, <1>3, <2>1 DEF WInv, ListUnknown, DroppedAreDeleted, WrittenAreNew, Drops, Exists
  <2>3. PurgedAreReplaced'
    <3>1. CASE c = "collector"
      BY <1>0, <1>2, <1>3, <3>1, ComesBack DEF PurgedAreReplaced, Replaced
    <3> QED BY <1>0, <3>1 DEF PurgedAreReplaced
  <2> QED BY <1>1, <2>2, <2>3 DEF WInv
<1>4. ASSUME NEW n \in Free, jobs' = [jobs EXCEPT ![n] = NewJob(c)],
             template' = template \ {n}, Goes(c, k, "template", n)
      PROVE  WInv'
  <2>1. /\ Drops(c, k) /\ worker'[c].pc = "template"
        /\ worker'[c].key = k /\ worker'[c].job = n
    BY <1>0, <1>4, GoesOn
  <2>2. /\ n \in Job /\ jobs[n] = Absent /\ n \notin deleted
        /\ \A d \in Controllers : n # worker[d].job
    BY <1>0 DEF Free, IInv, TypeOK
  <2>3. /\ jobs'[n] = NewJob(c) /\ \A m \in Job : m # n => jobs'[m] = jobs[m]
        /\ NewJob(c) # Absent /\ NewJob(c).phase = "New" /\ NewJob(c).owner = c
    BY <1>4, <2>2 DEF IInv, TypeOK, NewJob, Absent
  <2>4. ListUnknown'
    BY <1>0, <2>1, <2>3 DEF WInv, ListUnknown, Drops
  <2>5. DroppedAreDeleted'
    BY <1>0, <2>1, <2>2, <2>3 DEF WInv, DroppedAreDeleted, Drops, Exists, IInv, WorkerType
  <2>6. WrittenAreNew'
    BY <1>0, <1>4, <2>1, <2>2, <2>3 DEF WrittenAreNew, Exists
  <2>7. PurgedAreReplaced'
    <3>1. CASE c = "collector"
      BY <1>0, <1>2, <2>1, <3>1 DEF PurgedAreReplaced, Replaced
    <3> QED BY <1>0, <3>1 DEF PurgedAreReplaced
  <2> QED BY <1>1, <2>4, <2>5, <2>6, <2>7 DEF WInv
<1>5. Free # {} => (CHOOSE n \in Free : TRUE) \in Free
  OBVIOUS
<1> QED BY <1>3, <1>4, <1>5 DEF CreateJob

\* The template that is written belongs to a job that exists, the template that
\* is dropped does not.
LEMMA ContinuesReplaces ==
    ASSUME IInv, IInv', WInv, NEW c \in Controllers, Continues(c)
    PROVE  WInv'
<1> DEFINE k == worker[c].key
           n == worker[c].job
<1>0. /\ worker \in [Controllers -> WorkerType]
      /\ UNCHANGED <<jobs, seen, deleted, elapsed, list, restarts>>
      /\ c = "imagelist" \/ c = "collector"
      /\ "collector" \in Controllers /\ "imagelist" \in Controllers
      /\ worker[c].pc \in {"template", "drop"}
  BY DEF IInv, Continues, CreateTemplate, DropTemplate, Controllers, At
<1>1. k \in Key /\ n \in Job
  BY <1>0 DEF WorkerType
<1>2. Drops(c, k) /\ worker'[c].pc = "idle"
  BY <1>0, <1>1, IsDone, ComesBack DEF Continues, CreateTemplate, DropTemplate
<1>3. list.gen = 0 => c = "collector"
  BY <1>0 DEF WInv, ListUnknown
<1>4. DeletedAreCached' /\ ListUnknown' /\ DroppedAreDeleted' /\ WrittenAreNew'
  BY <1>0, <1>2, <1>3
  DEF WInv, DeletedAreCached, ListUnknown, DroppedAreDeleted, WrittenAreNew, Drops, Exists
<1>5. ASSUME list.gen = 0, NEW x \in deleted
      PROVE  Replaced(x)'
  <2>1. c = "collector" /\ Replaced(x)
    BY <1>3, <1>5 DEF WInv, PurgedAreReplaced
  <2>2. CASE seen[x].deleteAfter
    BY <1>0, <2>2 DEF Replaced
  <2>3. CASE FirstReconcile \in worker["collector"].queue \cup worker["collector"].timers
    BY <1>0, <1>2, <2>1, <2>3 DEF Replaced, Drops
  <2>4. CASE k = FirstReconcile
    <3>1. CASE Again(c, k)
      BY <1>0, <1>1, <2>1, <2>4, <3>1, ComesBack DEF Replaced
    <3>2. CASE worker[c].pc = "template" /\ template' = template \cup {n}
      BY <1>0, <1>1, <1>5, <2>1, <3>2 DEF WInv, WrittenAreNew, Replaced, Exists
    <3> QED BY <2>1, <3>1, <3>2 DEF Continues, CreateTemplate, DropTemplate, At
  <2>5. ASSUME NEW m \in Job, Exists(m), m \in template \/ jobs[m].phase # "New"
        PROVE  Replaced(x)'
    <3>1. CASE worker[c].pc = "drop"
      <4>1. m # n
        BY <1>0, <2>5, <3>1 DEF WInv, DroppedAreDeleted
      <4>2. template \ {n} \subseteq template'
        BY <3>1 DEF Continues, CreateTemplate, DropTemplate, At
      <4> QED BY <1>0, <2>5, <4>1, <4>2 DEF Replaced, Exists
    <3>2. CASE worker[c].pc = "template"
      <4>1. template \subseteq template'
        BY <3>2 DEF Continues, CreateTemplate, DropTemplate, At
      <4> QED BY <1>0, <2>5, <4>1 DEF Replaced, Exists
    <3> QED BY <1>0, <3>1, <3>2
  <2> QED BY <2>1, <2>2, <2>3, <2>4, <2>5 DEF Replaced
<1>6. PurgedAreReplaced'
  BY <1>0, <1>5 DEF PurgedAreReplaced
<1> QED BY <1>4, <1>6 DEF WInv

\* Jobs are deleted by the purge, which goes on to create one, or by a handler.
LEMMA PurgeReplaces ==
    ASSUME IInv, IInv', WInv, Purge
    PROVE  WInv'
<1>0. /\ worker \in [Controllers -> WorkerType]
      /\ UNCHANGED <<jobs, seen, elapsed, template, list, restarts>>
      /\ FirstReconcile \in Key
      /\ "collector" \in Controllers /\ "imagelist" \in Controllers
      /\ worker["collector"].pc = "idle"
      /\ deleted \subseteq deleted' /\ deleted' \subseteq deleted \cup Cached
  BY DEF IInv, Purge, Controllers, Key, Serves, At
<1>1. /\ Drops("collector", FirstReconcile)
      /\ worker'["collector"].pc # "drop" /\ worker'["collector"].pc # "template"
      /\ \/ worker'["collector"].pc # "idle" /\ worker'["collector"].key = FirstReconcile
         \/ FirstReconcile \in worker'["collector"].timers
  <2>1. CASE Goes("collector", FirstReconcile, "create", None)
    BY <1>0, <2>1, GoesOn
  <2>2. CASE Again("collector", FirstReconcile)
    BY <1>0, <2>2, ComesBack
  <2> QED BY <2>1, <2>2 DEF Purge
<1>2. DeletedAreCached' /\ ListUnknown' /\ WrittenAreNew'
  BY <1>0, <1>1 DEF WInv, DeletedAreCached, ListUnknown, WrittenAreNew, Drops, Cached
<1>3. DroppedAreDeleted'
  BY <1>0, <1>1 DEF WInv, DroppedAreDeleted, Drops, Exists
<1>4. PurgedAreReplaced'
  BY <1>0, <1>1 DEF PurgedAreReplaced, Replaced
<1> QED BY <1>2, <1>3, <1>4 DEF WInv

\* A handler deletes a job that is the only one its owner has cached, and that has
\* had its deletion time: it is not one that the first reconcile deletes.
LEMMA HandlerReplaces ==
    ASSUME IInv, IInv', WInv, NEW c \in Controllers, NEW k \in Key, NEW m \in Job,
           seen[m].phase = "Finished", seen[m] # Absent, HandleFinished(c, k, m),
           UNCHANGED seen, list'.gen = list.gen, list'.seen = list.seen,
           worker[c].pc = "idle",
           c = "imagelist" => list.gen # 0,
           c = "collector" => k # FirstReconcile /\ Cached = {m}
    PROVE  WInv'
<1>0. /\ worker \in [Controllers -> WorkerType]
      /\ c = "imagelist" \/ c = "collector"
      /\ "collector" \in Controllers /\ "imagelist" \in Controllers
      /\ DeletedAreCached /\ ListUnknown /\ DroppedAreDeleted /\ WrittenAreNew
      /\ PurgedAreReplaced
  BY DEF IInv, Controllers, WInv
<1>1. /\ Drops(c, k) /\ worker'[c].pc # "template"
      /\ worker'[c].pc = "drop" => /\ Goes(c, k, "drop", m) /\ worker'[c].job = m
                                   /\ deleted' = deleted \cup {m}
  <2>1. CASE Goes(c, k, "drop", m) /\ deleted' = deleted \cup {m}
    BY <1>0, <2>1, GoesOn
  <2>2. CASE Done(c, k)
    BY <1>0, <2>2, IsDone
  <2>3. CASE Again(c, k)
    BY <1>0, <2>3, ComesBack
  <2> QED BY <2>1, <2>2, <2>3, Handled
<1>2. /\ UNCHANGED template /\ deleted \subseteq deleted' /\ deleted' \subseteq deleted \cup {m}
      /\ m \in deleted' \ deleted => Exists(m) /\ seen[m].deleteAfter
      /\ ~Exists(m) => UNCHANGED <<jobs, deleted>>
      /\ \A n \in Job : /\ jobs[n] # Absent <=> jobs'[n] # Absent
                        /\ jobs'[n].owner = jobs[n].owner /\ jobs'[n].phase = jobs[n].phase
  <2>1. CASE UNCHANGED objects
    BY <2>1 DEF objects
  <2>2. CASE /\ UNCHANGED <<jobs, elapsed, template>>
             /\ Exists(m) /\ seen[m].deleteAfter /\ deleted' = deleted \cup {m}
    BY <2>2
  <2>3. CASE UNCHANGED <<deleted, template, jobs>>
    BY <2>3
  <2>4. CASE /\ UNCHANGED <<deleted, template>>
             /\ Exists(m) /\ jobs'[m] # Absent /\ jobs'[m].phase = jobs[m].phase
             /\ jobs'[m].owner = jobs[m].owner
             /\ \A n \in Job : n # m => jobs'[n] = jobs[n]
    BY <2>4 DEF Exists
  <2> QED BY <2>1, <2>2, <2>3, <2>4, Handled
<1>3. DeletedAreCached'
  BY <1>0, <1>2 DEF DeletedAreCached
<1>4. ListUnknown'
  BY <1>0, <1>1, <1>2 DEF ListUnknown, Drops
<1>5. DroppedAreDeleted'
  <2>1. \A d \in Controllers : worker[d].pc = "drop" => worker[d].job \in Job
    BY DEF IInv, WorkerType
  <2>2. ASSUME NEW d \in Controllers, worker'[d].pc = "drop"
        PROVE  worker'[d].job \in deleted' \/ jobs'[worker'[d].job] = Absent
    <3>1. CASE d = c
      BY <1>1, <2>2, <3>1 DEF Exists
    <3>2. CASE d # c
      <4>1. worker'[d] = worker[d] /\ worker[d].job \in Job /\ ~Exists(worker[d].job)
        BY <1>0, <1>1, <2>1, <2>2, <3>2 DEF DroppedAreDeleted, Drops
      <4> QED BY <1>2, <4>1 DEF Exists
    <3> QED BY <3>1, <3>2
  <2> QED BY <2>2 DEF DroppedAreDeleted, Exists
<1>6. WrittenAreNew'
  <2>1. CASE c = "collector"
    BY <1>1, <2>1 DEF WrittenAreNew
  <2>2. CASE c = "imagelist"
    BY <2>2 DEF WrittenAreNew
  <2> QED BY <1>0, <2>1, <2>2
<1>7. ASSUME list.gen = 0, NEW x \in deleted'
      PROVE  Replaced(x)'
  <2>1. c = "collector" /\ k # FirstReconcile /\ Cached = {m}
    BY <1>0, <1>7
  <2>2. CASE x \notin deleted
    BY <1>2, <1>7, <2>2 DEF Replaced
  <2>3. CASE x \in deleted
    <3>1. x = m /\ ~Exists(m)
      BY <1>0, <2>1, <2>3 DEF DeletedAreCached, Cached, IInv, TypeOK, Exists
    <3>2. UNCHANGED <<jobs, deleted, template, seen>> /\ Replaced(x)
      BY <1>0, <1>2, <1>7, <2>3, <3>1 DEF PurgedAreReplaced
    <3> QED BY <1>1, <2>1, <3>2 DEF Replaced, Drops, Exists
  <2> QED BY <2>2, <2>3
<1>8. PurgedAreReplaced'
  BY <1>7 DEF PurgedAreReplaced
<1> QED BY <1>3, <1>4, <1>5, <1>6, <1>8 DEF WInv

\* A step of a job changes neither a cache nor a worker.
LEMMA JobReplaces ==
    ASSUME IInv, IInv', WInv, NEW n \in Job, StartJob(n) \/ FinishJob(n) \/ Elapse(n)
    PROVE  WInv'
<1>0. /\ UNCHANGED <<deleted, template, seen, list, worker, failed, restarts>>
      /\ \A m \in Job :
            /\ jobs[m] # Absent <=> jobs'[m] # Absent
            /\ jobs'[m].owner = jobs[m].owner
            /\ jobs[m].phase # "New" => jobs'[m].phase # "New"
            /\ jobs[m].phase = "New" /\ m \notin template => jobs'[m].phase = "New"
  <2>1. CASE Elapse(n)
    BY <2>1 DEF Elapse
  <2>2. CASE StartJob(n)
    <3>1. jobs[n] \in Version /\ jobs[n] # Absent /\ jobs \in [Job -> Version]
      BY <2>2 DEF StartJob, Exists, IInv, TypeOK
    <3>2. /\ [jobs[n] EXCEPT !.phase = "Running"] # Absent
          /\ [jobs[n] EXCEPT !.phase = "Running"].phase = "Running"
      BY <3>1, VersionPhase
    <3>3. [jobs[n] EXCEPT !.phase = "Running"].owner = jobs[n].owner
      BY <3>1 DEF Version, Absent
    <3> QED BY <2>2, <3>1, <3>2, <3>3 DEF StartJob
  <2>3. CASE FinishJob(n)
    <3>1. jobs[n] \in Version /\ jobs[n] # Absent /\ jobs \in [Job -> Version]
      BY <2>3 DEF FinishJob, Exists, IInv, TypeOK
    <3>2. PICK due \in BOOLEAN :
              jobs' = [jobs EXCEPT ![n].phase = "Finished", ![n].deleteAfter = due]
      BY <2>3 DEF FinishJob
    <3>3. jobs' = [jobs EXCEPT ![n] = [jobs[n] EXCEPT !.phase = "Finished",
                                                      !.deleteAfter = due]]
      BY <3>1, <3>2
    <3>4. LET w == [jobs[n] EXCEPT !.phase = "Finished", !.deleteAfter = due]
          IN  w # Absent /\ w.phase = "Finished" /\ w.owner = jobs[n].owner
      <4>1. ASSUME NEW v \in Version, v # Absent
            PROVE  LET w == [v EXCEPT !.phase = "Finished", !.deleteAfter = due]
                   IN  w # Absent /\ w.phase = "Finished" /\ w.owner = v.owner
        BY <4>1 DEF Version, Absent
      <4> QED BY <3>1, <4>1
    <3> QED BY <2>3, <3>1, <3>3, <3>4 DEF FinishJob
  <2> QED BY <2>1, <2>2, <2>3
<1>1. DeletedAreCached' /\ ListUnknown'
  BY <1>0 DEF WInv, DeletedAreCached, ListUnknown
<1>2. DroppedAreDeleted' /\ WrittenAreNew'
  <2>1. \A c \in Controllers : worker[c].pc \in {"drop", "template"} => worker[c].job \in Job
    BY DEF IInv, WorkerType
  <2> QED BY <1>0, <2>1 DEF WInv, DroppedAreDeleted, WrittenAreNew, Exists, Controllers
<1>3. PurgedAreReplaced'
  BY <1>0 DEF WInv, PurgedAreReplaced, Replaced, Exists
<1> QED BY <1>1, <1>2, <1>3 DEF WInv

\* What a cache hears of a job wakes an owner, and takes no key from anyone.
LEMMA SyncReplaces == ASSUME IInv, IInv', WInv, NEW n \in Job, Sync(n) PROVE WInv'
<1>0. /\ worker \in [Controllers -> WorkerType] /\ jobs \in [Job -> Version]
      /\ seen \in [Job -> Version] /\ deleted \subseteq Job
      /\ \A m \in Job : seen[m] # Absent \/ m \in deleted => jobs[m] # Absent
      /\ UNCHANGED <<template, list, failed, restarts>>
      /\ "collector" \in Controllers /\ "imagelist" \in Controllers
      /\ n \in Key /\ ImageList \in Key
      /\ \A m \in Job : seen[m].deleteAfter => jobs[m].deleteAfter
  BY DEF IInv, CachesBehind, TypeOK, Cached, Sync, Created, Updated, Gone, objects, Controllers, Key
<1>1. CASE Created(n)
  <2>1. /\ UNCHANGED <<jobs, deleted, worker>> /\ n \notin deleted
        /\ seen' = [seen EXCEPT ![n] = [jobs[n] EXCEPT !.phase = "New",
                                                       !.deleteAfter = FALSE]]
    BY <1>1 DEF Created, objects, WInv, DeletedAreCached
  <2>2. \A m \in Job : m # n => seen'[m] = seen[m]
    BY <1>0, <2>1
  <2>3. DeletedAreCached' /\ ListUnknown' /\ DroppedAreDeleted' /\ WrittenAreNew'
    BY <1>0, <2>1, <2>2
    DEF WInv, DeletedAreCached, ListUnknown, DroppedAreDeleted, WrittenAreNew, Exists
  <2>4. PurgedAreReplaced'
    BY <1>0, <2>1, <2>2 DEF WInv, PurgedAreReplaced, Replaced, Exists
  <2> QED BY <2>3, <2>4 DEF WInv
<1>2. CASE Updated(n)
  <2>1. /\ UNCHANGED <<jobs, deleted>> /\ seen[n] # Absent /\ jobs[n] # Absent
        /\ seen'[n] = jobs[n] /\ \A m \in Job : m # n => seen'[m] = seen[m]
        /\ \/ UNCHANGED worker
           \/ Enqueue("collector", n)
           \/ jobs[n].owner = "imagelist" /\ Enqueue("imagelist", ImageList)
    BY <1>0, <1>2 DEF Updated, objects
  <2>2. /\ \A d \in Controllers :
              /\ worker[d].queue \cup worker[d].timers
                 \subseteq worker'[d].queue \cup worker'[d].timers
              /\ worker'[d].pc = worker[d].pc /\ worker'[d].key = worker[d].key
              /\ worker'[d].job = worker[d].job
        /\ jobs[n].owner = "collector" => worker'["imagelist"] = worker["imagelist"]
    BY <1>0, <2>1, Queued
  <2>3. DeletedAreCached' /\ ListUnknown' /\ DroppedAreDeleted' /\ WrittenAreNew'
    BY <1>0, <2>1, <2>2
    DEF WInv, DeletedAreCached, ListUnknown, DroppedAreDeleted, WrittenAreNew, Exists
  <2>4. PurgedAreReplaced'
    BY <1>0, <2>1, <2>2 DEF WInv, PurgedAreReplaced, Replaced, Exists
  <2> QED BY <2>3, <2>4 DEF WInv
<1>3. CASE Gone(n)
  <2>1. /\ UNCHANGED worker /\ n \in deleted /\ deleted' = deleted \ {n}
        /\ seen'[n] = Absent /\ jobs'[n] = Absent
        /\ \A m \in Job : m # n => seen'[m] = seen[m] /\ jobs'[m] = jobs[m]
    BY <1>0, <1>3 DEF Gone
  <2>2. \A d \in Controllers : worker[d].pc \in {"drop", "template"} => worker[d].job \in Job
    BY DEF IInv, WorkerType
  <2>3. DeletedAreCached' /\ ListUnknown'
    BY <1>0, <2>1 DEF WInv, DeletedAreCached, ListUnknown
  <2>4. DroppedAreDeleted' /\ WrittenAreNew'
    BY <1>0, <2>1, <2>2 DEF WInv, DroppedAreDeleted, WrittenAreNew, Exists
  <2>5. PurgedAreReplaced'
    BY <1>0, <2>1 DEF WInv, PurgedAreReplaced, Replaced, Exists
  <2> QED BY <2>3, <2>4, <2>5 DEF WInv
<1> QED BY <1>1, <1>2, <1>3 DEF Sync

\* An ImageList that is not there is not seen either.
LEMMA ListReplaces ==
    ASSUME IInv, IInv', WInv, UpdateList \/ SyncList
    PROVE  WInv'
<1>0. /\ worker \in [Controllers -> WorkerType]
      /\ UNCHANGED <<jobs, deleted, template, seen>>
      /\ "collector" \in Controllers /\ "imagelist" \in Controllers /\ ImageList \in Key
  BY DEF IInv, UpdateList, SyncList, objects, Controllers, Key
<1>1. /\ list'.gen = 0 => list.gen = 0 /\ list'.seen = list.seen
      /\ \/ UNCHANGED worker
         \/ Enqueue("imagelist", ImageList) /\ ~(list.gen = 0 /\ list.seen = 0)
  <2>1. CASE UpdateList
    <3>1. list.gen \in Nat /\ list'.gen = list.gen + 1 /\ UNCHANGED worker
      BY <2>1, SchedulingAssumption DEF UpdateList, IInv, TypeOK
    <3> QED BY <3>1
  <2>2. CASE SyncList
    BY <2>2 DEF SyncList, IInv, TypeOK, WInv, ListUnknown
  <2> QED BY <2>1, <2>2
<1>2. /\ \A d \in Controllers :
            /\ worker[d].queue \cup worker[d].timers
               \subseteq worker'[d].queue \cup worker'[d].timers
            /\ worker'[d].pc = worker[d].pc /\ worker'[d].key = worker[d].key
            /\ worker'[d].job = worker[d].job
      /\ list'.gen = 0 => UNCHANGED worker
  BY <1>0, <1>1, Queued DEF WInv, ListUnknown
<1>3. DeletedAreCached' /\ ListUnknown' /\ DroppedAreDeleted' /\ WrittenAreNew'
  BY <1>0, <1>1, <1>2
  DEF WInv, DeletedAreCached, ListUnknown, DroppedAreDeleted, WrittenAreNew, Exists
<1>4. PurgedAreReplaced'
  BY <1>0, <1>1, <1>2 DEF WInv, PurgedAreReplaced, Replaced, Exists
<1> QED BY <1>3, <1>4 DEF WInv

\* A timer that fires moves its key to the queue.
LEMMA TimerReplaces ==
    ASSUME IInv, IInv', WInv, NEW c \in Controllers, NEW k \in Key, TimerFires(c, k)
    PROVE  WInv'
<1>0. /\ worker \in [Controllers -> WorkerType]
      /\ UNCHANGED <<jobs, deleted, template, seen, list>>
      /\ "collector" \in Controllers /\ "imagelist" \in Controllers
      /\ k \in worker[c].timers /\ (c = "imagelist" \/ c = "collector")
  BY DEF IInv, TimerFires, objects, Controllers
<1>1. /\ \A d \in Controllers :
            /\ worker[d].queue \cup worker[d].timers
               \subseteq worker'[d].queue \cup worker'[d].timers
            /\ worker'[d].pc = worker[d].pc /\ worker'[d].key = worker[d].key
            /\ worker'[d].job = worker[d].job
      /\ list.gen = 0 => worker'["imagelist"] = worker["imagelist"]
  BY <1>0, Queued DEF WInv, ListUnknown
<1>2. DeletedAreCached' /\ ListUnknown' /\ DroppedAreDeleted' /\ WrittenAreNew'
  BY <1>0, <1>1
  DEF WInv, DeletedAreCached, ListUnknown, DroppedAreDeleted, WrittenAreNew, Exists
<1>3. PurgedAreReplaced'
  BY <1>0, <1>1 DEF WInv, PurgedAreReplaced, Replaced, Exists
<1> QED BY <1>2, <1>3 DEF WInv

\* What a worker has when the manager starts.
LEMMA StartedFacts ==
    ASSUME NEW g
    PROVE  /\ \A c \in Controllers : Started(g)[c].pc = "idle"
           /\ Started(g)["imagelist"].timers = {}
           /\ Started(g)["imagelist"].queue = IF g > 0 THEN {ImageList} ELSE {}
           /\ CollectorEnabled => FirstReconcile \in Started(g)["collector"].timers
BY DEF Started, Idle, Controllers

\* An ImageList that is there is served when the manager starts.
LEMMA StartedWithList ==
    ASSUME TypeOK, list.gen # 0
    PROVE  Started(list.gen)["imagelist"].queue = {ImageList}
<1>1. ASSUME NEW g \in Nat, g # 0 PROVE Started(g)["imagelist"].queue = {ImageList}
  <2>1. g > 0
    BY <1>1
  <2> QED BY <2>1, StartedFacts
<1>2. list.gen \in Nat
  BY SchedulingAssumption DEF TypeOK
<1> QED BY <1>1, <1>2

\* An ImageList that is updated is there.
LEMMA UpdatedIsThere == ASSUME TypeOK, UpdateList PROVE list'.gen # 0
<1>1. list.gen \in Nat /\ list'.gen = list.gen + 1
  BY SchedulingAssumption DEF UpdateList, TypeOK
<1>2. \A g \in Nat : g + 1 # 0
  OBVIOUS
<1> QED BY <1>1, <1>2

\* A restart forgets what was deleted and what was in the hands of a worker.
LEMMA RestartReplaces == ASSUME IInv, IInv', WInv, Restart PROVE WInv'
<1>1. /\ deleted' = {} /\ list'.gen = list.gen /\ list'.seen = list.gen
      /\ worker' = Started(list.gen)
      /\ \A n \in Job : jobs'[n] = jobs[n] \/ jobs'[n] = Absent
      /\ "collector" \in Controllers /\ "imagelist" \in Controllers
  BY DEF Restart, IInv, TypeOK, Controllers
<1>2. ListUnknown'
  BY <1>1, StartedFacts DEF WInv, ListUnknown
<1>3. DroppedAreDeleted' /\ WrittenAreNew'
  BY <1>1, StartedFacts DEF DroppedAreDeleted, WrittenAreNew
<1>4. DeletedAreCached' /\ PurgedAreReplaced'
  BY <1>1 DEF DeletedAreCached, PurgedAreReplaced
<1> QED BY <1>2, <1>3, <1>4 DEF WInv

\* At the start there is no job.
LEMMA InitReplaces == Init => WInv
<1> SUFFICES ASSUME Init PROVE WInv OBVIOUS
<1>1. DeletedAreCached /\ PurgedAreReplaced
  BY DEF Init, DeletedAreCached, PurgedAreReplaced
<1>2. ListUnknown /\ DroppedAreDeleted /\ WrittenAreNew
  BY StartedFacts DEF Init, ListUnknown, DroppedAreDeleted, WrittenAreNew, Controllers
<1> QED BY <1>1, <1>2 DEF WInv

\* Each step keeps what the controllers rely on.
LEMMA NextReplaces == IInv /\ IInv' /\ WInv /\ [Next]_vars => WInv'
<1> SUFFICES ASSUME IInv, IInv', WInv, [Next]_vars PROVE WInv' OBVIOUS
<1>0. "collector" \in Controllers /\ "imagelist" \in Controllers
      /\ FirstReconcile \in Key /\ ImageList \in Key
  BY DEF Controllers, Key
<1>1. ASSUME NEW k \in Key, CollectorReconciles(k) PROVE WInv'
  <2>1. /\ Serves("collector", k) /\ k # FirstReconcile /\ UNCHANGED seen
        /\ worker["collector"].pc = "idle"
    BY <1>1 DEF CollectorReconciles, Serves, At
  <2>2. CASE Cached = {} /\ CreateJob("collector", k)
    BY <1>0, <2>1, <2>2, CreateJobReplaces
  <2>3. ASSUME NEW n \in Cached, Cached = {n}, seen[n].phase = "Finished",
               HandleFinished("collector", k, n), UNCHANGED list
        PROVE  WInv'
    BY <1>0, <2>1, <2>3, HandlerReplaces DEF Cached
  <2>4. CASE Again("collector", k) /\ UNCHANGED <<objects, list>>
    <3>1. Drops("collector", k) /\ worker'["collector"].pc = "idle"
      BY <1>0, <2>4, ComesBack DEF IInv
    <3>2. DeletedAreCached' /\ ListUnknown' /\ DroppedAreDeleted' /\ WrittenAreNew'
      BY <1>0, <2>1, <2>4, <3>1
      DEF WInv, DeletedAreCached, ListUnknown, DroppedAreDeleted, WrittenAreNew, Exists,
          objects, Drops
    <3>3. PurgedAreReplaced'
      BY <1>0, <2>1, <2>4, <3>1 DEF WInv, PurgedAreReplaced, Replaced, Exists, objects, Drops
    <3> QED BY <3>2, <3>3 DEF WInv
  <2> QED BY <1>1, <2>2, <2>3, <2>4 DEF CollectorReconciles
<1>2. ASSUME ListReconciles PROVE WInv'
  <2>1. /\ Serves("imagelist", ImageList) /\ UNCHANGED seen /\ list.gen # 0
        /\ worker["imagelist"].pc = "idle"
    BY <1>2 DEF ListReconciles, Serves, At, WInv, ListUnknown
  <2>2. CASE CreateJob("imagelist", ImageList)
    BY <1>0, <2>1, <2>2, CreateJobReplaces
  <2>3. ASSUME NEW n \in Owned, seen[n].phase = "Finished", ~list.stale,
               list' = [list EXCEPT !.stale = TRUE], HandleFinished("imagelist", ImageList, n)
        PROVE  WInv'
    <3>1. list'.gen = list.gen /\ list'.seen = list.seen
      BY <2>3 DEF IInv, TypeOK
    <3> QED BY <1>0, <2>1, <2>3, <3>1, HandlerReplaces DEF Owned, Cached
  <2>4. CASE Again("imagelist", ImageList) /\ UNCHANGED <<objects, list>>
    <3>1. Drops("imagelist", ImageList) /\ worker'["imagelist"].pc = "idle"
      BY <1>0, <2>4, ComesBack DEF IInv
    <3> QED BY <1>0, <2>1, <2>4, <3>1
            DEF WInv, DeletedAreCached, ListUnknown, DroppedAreDeleted, WrittenAreNew, Exists,
                PurgedAreReplaced, objects, Drops
  <2> QED BY <1>2, <2>2, <2>3, <2>4 DEF ListReconciles, HandleOwnFinished
<1>3. ASSUME AfterPurge PROVE WInv'
  BY <1>0, <1>3, CreateJobReplaces DEF AfterPurge
<1>4. ASSUME NEW c \in Controllers, Serve(c) PROVE WInv'
  BY <1>1, <1>2, <1>3, <1>4, ContinuesReplaces, PurgeReplaces DEF Serve
<1>5. CASE UNCHANGED vars
  BY <1>5 DEF vars, objects, WInv, DeletedAreCached, ListUnknown, DroppedAreDeleted,
              WrittenAreNew, PurgedAreReplaced, Replaced, Exists
<1> QED BY <1>4, <1>5, TimerReplaces, JobReplaces, SyncReplaces, ListReplaces, RestartReplaces
        DEF Next

\* A finished job that no event is to come of has an owner with a key.
Awaited(n) ==
    \/ seen[n] # jobs[n]
    \/ worker[jobs[n].owner].queue \cup worker[jobs[n].owner].timers # {}

Finished(n) ==
    /\ Exists(n) /\ jobs[n].phase = "Finished"
    /\ jobs[n].owner = "collector" => CollectorEnabled

\* A job has one of the two owners.
LEMMA Owners == ASSUME IInv, NEW n \in Job, Exists(n)
                PROVE  jobs[n].owner \in Controllers /\ jobs[n].phase \in {"New", "Running", "Finished"}
<1>1. jobs[n] \in Version /\ jobs[n] # Absent
  BY DEF IInv, TypeOK, Exists
<1> QED BY <1>1 DEF Version

\* A job that a step leaves alone stays awaited, unless its owner drops a key.
LEMMA StaysAwaited ==
    ASSUME IInv, NEW n \in Job, Finished(n) => Awaited(n), Finished(n)',
           jobs'[n] = jobs[n], seen'[n] = seen[n], deleted \subseteq deleted',
           \/ worker'[jobs[n].owner] = worker[jobs[n].owner]
           \/ worker[jobs[n].owner].queue \cup worker[jobs[n].owner].timers
              \subseteq worker'[jobs[n].owner].queue \cup worker'[jobs[n].owner].timers
           \/ worker'[jobs[n].owner].timers # {}
    PROVE  Awaited(n)'
BY DEF Finished, Awaited, Exists

\* A handler drops the key of a finished job only when an event is to come of it.
LEMMA HandlerAwaits ==
    ASSUME IInv, IInv', NEW c \in Controllers, NEW k \in Key, NEW m \in Job, NEW n \in Job,
           seen[m].phase = "Finished", seen[m] # Absent, HandleFinished(c, k, m),
           UNCHANGED seen, Finished(n) => Awaited(n), Finished(n)',
           "set deleteAfter" \notin failed',
           jobs[n].owner = c /\ seen[n] = jobs[n] => n = m
    PROVE  Awaited(n)'
<1>0. worker \in [Controllers -> WorkerType]
  BY DEF IInv
<1>1. CASE Again(c, k) /\ UNCHANGED objects
  BY <1>0, <1>1, ComesBack, StaysAwaited, Owners DEF objects, Drops, Finished, Exists
<1>2. ASSUME n # m, jobs'[n] = jobs[n], deleted \subseteq deleted', Drops(c, k)
      PROVE  Awaited(n)'
  <2>1. CASE jobs[n].owner = c
    <3>1. seen[n] # jobs[n]
      BY <1>2, <2>1
    <3> QED BY <1>2, <3>1 DEF Awaited
  <2>2. CASE jobs[n].owner # c
    <3>1. Exists(n)
      BY <1>2 DEF Finished, Exists
    <3> QED BY <1>2, <2>2, <3>1, StaysAwaited, Owners DEF Drops
  <2> QED BY <2>1, <2>2
<1>3. CASE /\ Goes(c, k, "drop", m) /\ UNCHANGED <<jobs, elapsed, template>>
           /\ deleted' = deleted \cup {m}
  BY <1>0, <1>2, <1>3, GoesOn DEF Finished, Exists
<1>4. CASE /\ Done(c, k) /\ UNCHANGED <<deleted, template, jobs>> /\ ~seen[m].deleteAfter
           /\ ~Exists(m) \/ seen[m] # jobs[m] \/ "set deleteAfter" \in failed'
  BY <1>0, <1>2, <1>4, IsDone DEF Finished, Exists, Awaited
<1>5. CASE /\ Done(c, k) /\ UNCHANGED <<deleted, template>> /\ ~seen[m].deleteAfter
           /\ jobs'[m].deleteAfter /\ \A x \in Job : x # m => jobs'[x] = jobs[x]
  <2>1. CASE n = m
    BY <1>5, <2>1 DEF Awaited
  <2> QED BY <1>0, <1>2, <1>5, <2>1, IsDone
<1> QED BY <1>1, <1>3, <1>4, <1>5, Handled

\* A new job is not finished; the key that made it may be dropped, but no job of
\* the same owner was cached.
LEMMA CreateAwaits ==
    ASSUME IInv, IInv', NEW c \in Controllers, NEW k \in Key, NEW n \in Job, CreateJob(c, k),
           UNCHANGED seen, Finished(n) => Awaited(n), Finished(n)',
           jobs[n].owner = c => worker[c].pc # "idle" \/ seen[n] # jobs[n]
    PROVE  Awaited(n)'
<1>0. worker \in [Controllers -> WorkerType] /\ UNCHANGED deleted
  BY DEF IInv, CreateJob
<1>1. Drops(c, k)
  BY <1>0, GoesOn, IsDone, ComesBack DEF CreateJob
<1>2. jobs'[n] = jobs[n]
  <2>1. ASSUME NEW m \in Free, jobs' = [jobs EXCEPT ![m] = NewJob(c)]
        PROVE  m # n
    <3>1. m \in Job /\ jobs'[m].phase = "New"
      BY <2>1 DEF Free, IInv, TypeOK, NewJob
    <3> QED BY <3>1 DEF Finished
  <2>2. Free # {} => (CHOOSE m \in Free : TRUE) \in Free
    OBVIOUS
  <2> QED BY <2>1, <2>2 DEF CreateJob, IInv, TypeOK
<1>3. Exists(n)
  BY <1>0, <1>2 DEF Finished, Exists
<1>4. CASE seen[n] # jobs[n]
  BY <1>2, <1>4 DEF Awaited
<1>5. CASE jobs[n].owner = c /\ worker[c].pc # "idle"
  BY <1>0, <1>1, <1>2, <1>5, StaysAwaited DEF Drops
<1>6. CASE jobs[n].owner # c
  BY <1>0, <1>1, <1>2, <1>3, <1>6, StaysAwaited, Owners DEF Drops
<1> QED BY <1>4, <1>5, <1>6

\* Each step keeps finished jobs awaited.
LEMMA NextAwaits ==
    ASSUME IInv, IInv', WInv, [Next]_vars, NEW n \in Job, Finished(n) => Awaited(n),
           Finished(n)', "set deleteAfter" \notin failed'
    PROVE  Awaited(n)'
<1>0. /\ worker \in [Controllers -> WorkerType] /\ jobs \in [Job -> Version]
      /\ seen \in [Job -> Version]
      /\ "collector" \in Controllers /\ "imagelist" \in Controllers
      /\ FirstReconcile \in Key /\ ImageList \in Key
      /\ \A m \in Job : Exists(m) => jobs[m].owner \in Controllers
      /\ Controllers = {"collector", "imagelist"}
      /\ jobs[n].owner \in Controllers => jobs[n] # Absent
  <2>1. Absent.owner \notin Controllers
    BY DEF Absent, Controllers
  <2> QED BY <2>1, Owners DEF IInv, TypeOK, Controllers, Key
<1>1. ASSUME NEW c \in Controllers, Continues(c) PROVE Awaited(n)'
  <2>1. /\ UNCHANGED <<jobs, seen, deleted>> /\ worker[c].pc # "idle"
        /\ worker[c].pc \in {"template", "drop"}
    BY <1>1 DEF Continues, CreateTemplate, DropTemplate, At
  <2>2. worker[c].key \in Key
    BY <1>0, <2>1 DEF WorkerType
  <2>3. Drops(c, worker[c].key)
    BY <1>0, <1>1, <2>2, IsDone, ComesBack DEF Continues, CreateTemplate, DropTemplate
  <2> QED BY <1>0, <2>1, <2>3, StaysAwaited DEF Drops, Finished, Exists
<1>2. ASSUME Purge PROVE Awaited(n)'
  <2>1. UNCHANGED <<jobs, seen>> /\ deleted \subseteq deleted' /\ Exists(n)
    BY <1>2 DEF Purge, Finished, Exists
  <2>2. CASE deleted' = deleted \cup Cached /\ Goes("collector", FirstReconcile, "create", None)
    <3>1. seen[n] = Absent
      BY <2>2 DEF Cached, Finished, Exists
    <3> QED BY <2>1, <3>1 DEF Awaited, Exists
  <2>3. CASE Again("collector", FirstReconcile)
    <3>1. Drops("collector", FirstReconcile) /\ FirstReconcile \in worker'["collector"].timers
      BY <1>0, <2>3, ComesBack
    <3> QED BY <1>0, <2>1, <3>1, StaysAwaited DEF Drops
  <2> QED BY <1>2, <2>2, <2>3 DEF Purge
<1>3. ASSUME AfterPurge PROVE Awaited(n)'
  BY <1>0, <1>3, CreateAwaits DEF AfterPurge, At
<1>4. ASSUME NEW c \in Controllers, NEW k \in Key, Again(c, k), UNCHANGED <<objects, seen>>
      PROVE  Awaited(n)'
  <2>1. Drops(c, k) /\ k \in worker'[c].timers
    BY <1>0, <1>4, ComesBack
  <2> QED BY <1>0, <1>4, <2>1, StaysAwaited DEF Drops, Finished, Exists, objects
<1>5. ASSUME NEW k \in Key, CollectorReconciles(k) PROVE Awaited(n)'
  <2>0. jobs[n].owner = "collector" /\ seen[n] = jobs[n] => n \in Cached
    BY <1>0 DEF Cached
  <2>1. CASE Cached = {} /\ CreateJob("collector", k)
    BY <1>0, <1>5, <2>0, <2>1, CreateAwaits DEF CollectorReconciles
  <2>2. ASSUME NEW m \in Cached, Cached = {m}, seen[m].phase = "Finished",
               HandleFinished("collector", k, m)
        PROVE  Awaited(n)'
    <3>1. m \in Job /\ seen[m] # Absent /\ UNCHANGED seen
      BY <1>5, <2>2 DEF CollectorReconciles, Cached
    <3>2. jobs[n].owner = "collector" /\ seen[n] = jobs[n] => n = m
      BY <2>0, <2>2
    <3> QED BY <1>0, <2>2, <3>1, <3>2, HandlerAwaits
  <2> QED BY <1>0, <1>4, <1>5, <2>1, <2>2 DEF CollectorReconciles
<1>6. ASSUME ListReconciles PROVE Awaited(n)'
  <2>1. jobs[n].owner = "imagelist" /\ seen[n] = jobs[n] => n \in Owned
    BY <1>0 DEF Owned, Cached
  <2>2. CASE Owned = {} /\ CreateJob("imagelist", ImageList)
    BY <1>0, <1>6, <2>1, <2>2, CreateAwaits DEF ListReconciles
  <2>3. ASSUME NEW m \in Owned, Owned = {m}, seen[m].phase = "Finished",
               HandleFinished("imagelist", ImageList, m)
        PROVE  Awaited(n)'
    <3>1. m \in Job /\ seen[m] # Absent /\ UNCHANGED seen
      BY <1>6, <2>3 DEF ListReconciles, Owned, Cached
    <3>2. jobs[n].owner = "imagelist" /\ seen[n] = jobs[n] => n = m
      BY <2>1, <2>3
    <3> QED BY <1>0, <2>3, <3>1, <3>2, HandlerAwaits
  <2> QED BY <1>0, <1>4, <1>6, <2>2, <2>3 DEF ListReconciles, HandleOwnFinished
<1>7. ASSUME NEW c \in Controllers, Serve(c) PROVE Awaited(n)'
  BY <1>1, <1>2, <1>3, <1>5, <1>6, <1>7 DEF Serve
<1>8. ASSUME NEW c \in Controllers, NEW k \in Key, TimerFires(c, k) PROVE Awaited(n)'
  <2>1. UNCHANGED <<objects, seen>>
    BY <1>8 DEF TimerFires
  <2>2. \A d \in Controllers : worker[d].queue \cup worker[d].timers
                               \subseteq worker'[d].queue \cup worker'[d].timers
    BY <1>0, <1>8, Queued
  <2>3. (jobs[n].owner = "imagelist" \/ jobs[n].owner = "collector")
        /\ "imagelist" \in Controllers /\ "collector" \in Controllers
    BY <1>0, <2>1, Owners DEF Finished, Exists, objects, Controllers
  <2> QED BY <1>0, <2>1, <2>2, <2>3, StaysAwaited DEF Finished, Exists, objects
<1>9. ASSUME NEW m \in Job, StartJob(m) \/ FinishJob(m) \/ Elapse(m) PROVE Awaited(n)'
  <2>1. UNCHANGED <<seen, deleted, worker>>
    BY <1>9 DEF StartJob, FinishJob, Elapse
  <2>2. CASE jobs'[n] = jobs[n]
    BY <1>0, <2>1, <2>2, StaysAwaited DEF Finished, Exists
  <2>3. CASE jobs'[n] # jobs[n]
    <3>1. jobs[n].phase # "Finished"
      BY <1>0, <1>9, <2>3 DEF StartJob, FinishJob, Elapse
    <3>2. seen'[n].phase # "Finished"
      BY <2>1, <3>1 DEF IInv, CachesBehind
    <3> QED BY <3>2 DEF Awaited, Finished
  <2> QED BY <2>2, <2>3
<1>10. ASSUME NEW m \in Job, Sync(m) PROVE Awaited(n)'
  <2>1. CASE Created(m)
    <3>1. /\ UNCHANGED <<jobs, deleted, worker>>
          /\ seen' = [seen EXCEPT ![m] = [jobs[m] EXCEPT !.phase = "New",
                                                         !.deleteAfter = FALSE]]
          /\ jobs[m] # Absent
      BY <2>1 DEF Created, objects
    <3>2. CASE m = n
      <4>1. [jobs[m] EXCEPT !.phase = "New", !.deleteAfter = FALSE].phase = "New"
        BY <1>0, <3>1, VersionBoth
      <4>2. seen'[n].phase = "New"
        BY <1>0, <3>1, <3>2, <4>1
      <4> QED BY <4>2 DEF Awaited, Finished
    <3>3. CASE m # n
      BY <1>0, <3>1, <3>3, StaysAwaited DEF Finished, Exists
    <3> QED BY <3>2, <3>3
  <2>2. CASE Updated(m)
    <3>1. UNCHANGED <<jobs, deleted>> /\ \A x \in Job : x # m => seen'[x] = seen[x]
      BY <1>0, <2>2 DEF Updated, objects
    <3>2. UNCHANGED worker \/ Enqueue("collector", m) \/ Enqueue("imagelist", ImageList)
      BY <2>2 DEF Updated
    <3>3. m \in Key
      BY DEF Key
    <3>4. CASE m # n
      BY <1>0, <3>1, <3>2, <3>3, <3>4, Queued, StaysAwaited DEF Finished, Exists
    <3>5. CASE m = n
      <4>1. \/ jobs[n].owner = "collector" /\ Enqueue("collector", n)
            \/ jobs[n].owner = "imagelist" /\ Enqueue("imagelist", ImageList)
        BY <2>2, <3>1, <3>5 DEF Updated, Wakes, Finished, Exists
      <4> QED BY <1>0, <3>1, <3>3, <3>5, <4>1, Queued DEF Awaited
    <3> QED BY <3>4, <3>5
  <2>3. CASE Gone(m)
    <3>1. m # n
      BY <1>0, <2>3 DEF Gone, Finished, Exists
    <3>2. /\ UNCHANGED worker /\ jobs'[n] = jobs[n] /\ seen'[n] = seen[n]
          /\ n \in deleted => n \in deleted'
      BY <1>0, <2>3, <3>1 DEF Gone
    <3> QED BY <3>2 DEF Finished, Exists, Awaited
  <2> QED BY <1>10, <2>1, <2>2, <2>3 DEF Sync
<1>11. ASSUME UpdateList \/ SyncList PROVE Awaited(n)'
  <2>1. UNCHANGED <<jobs, seen, deleted>>
        /\ (UNCHANGED worker \/ Enqueue("imagelist", ImageList))
    BY <1>11 DEF UpdateList, SyncList, objects
  <2> QED BY <1>0, <2>1, Queued, StaysAwaited DEF Finished, Exists
<1>12. ASSUME Restart PROVE Awaited(n)'
  <2>1. /\ jobs'[n] = jobs[n] /\ Exists(n) /\ worker' = Started(list.gen)
    BY <1>12 DEF Restart, Finished, Exists
  <2>2. CASE jobs[n].owner = "collector"
    BY <2>1, <2>2, StartedFacts DEF Awaited, Finished
  <2>3. CASE jobs[n].owner = "imagelist"
    <3>1. list.gen # 0
      BY <2>1, <2>3 DEF WInv, ListUnknown, Exists
    <3>2. worker'["imagelist"].queue = {ImageList}
      BY <2>1, <3>1, StartedWithList DEF IInv
    <3> QED BY <2>1, <2>3, <3>2 DEF Awaited
  <2> QED BY <1>0, <2>1, <2>2, <2>3
<1>13. CASE UNCHANGED vars
  BY <1>13 DEF vars, objects, Awaited, Finished, Exists
<1> QED BY <1>7, <1>8, <1>9, <1>10, <1>11, <1>12, <1>13 DEF Next

\* A call that has failed has failed.
LEMMA FailuresStay == TypeOK /\ [Next]_vars => failed \subseteq failed'
<1> SUFFICES ASSUME [Next]_vars PROVE failed \subseteq failed' OBVIOUS
<1>1. ASSUME NEW c \in Controllers, Serve(c) PROVE failed \subseteq failed'
  <2>1. ASSUME NEW k, CreateJob(c, k) PROVE failed \subseteq failed'
    BY <2>1 DEF CreateJob, Works, Breaks
  <2>2. ASSUME NEW d, NEW k, NEW n, HandleFinished(d, k, n) PROVE failed \subseteq failed'
    BY <2>2 DEF HandleFinished, SetDeleteAfter, DeleteJob, Works, Breaks
  <2>3. ASSUME Continues(c) PROVE failed \subseteq failed'
    BY <2>3 DEF Continues, CreateTemplate, DropTemplate, Works, Breaks
  <2>4. ASSUME c = "imagelist", ListReconciles PROVE failed \subseteq failed'
    BY <2>1, <2>2, <2>4 DEF ListReconciles, HandleOwnFinished, Works, Breaks
  <2>5. ASSUME Purge PROVE failed \subseteq failed'
    BY <2>5 DEF Purge, Works, Breaks
  <2>6. ASSUME c = "collector", NEW k \in Key, CollectorReconciles(k) PROVE failed \subseteq failed'
    BY <2>1, <2>2, <2>6 DEF CollectorReconciles, Works
  <2> QED BY <1>1, <2>1, <2>3, <2>4, <2>5, <2>6 DEF Serve, AfterPurge
<1> QED BY <1>1 DEF Next, TimerFires, StartJob, FinishJob, Elapse, Sync, Created, Updated, Gone,
                   SyncList, UpdateList, Restart, vars

\* In these words, a finished job is awaited.
LEMMA AwaitedMeans ==
    FinishedJobIsAwaited <=>
        ("set deleteAfter" \notin failed => \A n \in Job : Finished(n) => Awaited(n))
BY DEF FinishedJobIsAwaited, Finished, Awaited, Pending

\* Each step keeps that no finished job is forgotten.
LEMMA NextForgetsNone ==
    IInv /\ IInv' /\ WInv /\ FinishedJobIsAwaited /\ [Next]_vars => FinishedJobIsAwaited'
<1> SUFFICES ASSUME IInv, IInv', WInv, FinishedJobIsAwaited, [Next]_vars,
                    "set deleteAfter" \notin failed', NEW n \in Job, Finished(n)'
             PROVE  Awaited(n)'
  BY DEF FinishedJobIsAwaited, Finished, Awaited, Pending, Exists
<1>1. "set deleteAfter" \notin failed
  BY FailuresStay DEF IInv
<1> QED BY <1>1, NextAwaits, AwaitedMeans

\* No finished job is forgotten: for any number of jobs, calls that fail, changes
\* of the ImageList and restarts, a job that ends is one its owner will look at.
THEOREM NoFinishedJobForgotten == Spec => []FinishedJobIsAwaited
<1>1. Init => FinishedJobIsAwaited
  BY DEF Init, FinishedJobIsAwaited, Exists
<1> QED BY <1>1, Initially, Inductive, InitReplaces, NextReplaces, NextForgetsNone, PTL DEF Spec

-----------------------------------------------------------------------------
(* The collector.                                                          *)

Awake ==
    \/ worker["collector"].queue \cup worker["collector"].timers # {}
    \/ worker["collector"].pc # "idle"
    \/ \E n \in Job : UnderWay(n)

\* A job that a step leaves alone is still under way.
LEMMA StaysUnderWay ==
    ASSUME NEW n \in Job, UnderWay(n), jobs'[n] = jobs[n], seen'[n] = seen[n],
           deleted' \subseteq deleted, n \in template => n \in template'
    PROVE  UnderWay(n)'
BY DEF UnderWay, Exists

\* When the collector drops its key, a job is under way.
LEMMA CollectorStaysAwake ==
    ASSUME IInv, IInv', WInv, list.gen = 0, "set deleteAfter" \notin failed',
           Serve("collector")
    PROVE  Awake'
<1>0. /\ worker \in [Controllers -> WorkerType] /\ jobs \in [Job -> Version]
      /\ seen \in [Job -> Version] /\ worker["collector"] \in WorkerType
      /\ "collector" \in Controllers /\ FirstReconcile \in Key
  BY DEF IInv, TypeOK, Controllers, Key
<1>1. ASSUME NEW k \in Key, Again("collector", k) PROVE Awake'
  BY <1>0, <1>1, ComesBack DEF Awake
<1>2. ASSUME NEW k \in Key, NEW pc, NEW n, pc # "idle", Goes("collector", k, pc, n)
      PROVE  Awake'
  BY <1>0, <1>2, GoesOn DEF Awake
<1>3. ASSUME NEW k \in Key, CreateJob("collector", k) PROVE Awake'
  BY <1>1, <1>2, <1>3 DEF CreateJob
<1>4. CASE Continues("collector")
  <2>1. /\ worker["collector"].key \in Key
        /\ \E n \in Job : n = worker["collector"].job
    BY <1>0, <1>4 DEF Continues, At, WorkerType
  <2>2. CASE Again("collector", worker["collector"].key)
    BY <1>1, <2>1, <2>2
  <2>3. CASE /\ worker["collector"].pc = "template"
             /\ template' = template \cup {worker["collector"].job}
             /\ UNCHANGED <<jobs, deleted>>
    <3>1. PICK n \in Job : n = worker["collector"].job
      BY <2>1
    <3>2. /\ n \notin deleted' /\ jobs'[n] # Absent /\ jobs'[n].phase = "New"
          /\ n \in template'
      BY <2>3, <3>1 DEF WInv, WrittenAreNew, Exists
    <3>3. UnderWay(n)'
      BY <3>2 DEF UnderWay, Exists
    <3> QED BY <3>3 DEF Awake
  <2> QED BY <1>4, <2>2, <2>3 DEF Continues, At, CreateTemplate, DropTemplate
<1>5. CASE Purge
  BY <1>0, <1>1, <1>2, <1>5 DEF Purge
<1>6. CASE AfterPurge
  BY <1>0, <1>3, <1>6 DEF AfterPurge
<1>7. ASSUME NEW k \in Key, CollectorReconciles(k) PROVE Awake'
  <2>1. /\ k # FirstReconcile /\ worker["collector"].pc = "idle" /\ UNCHANGED seen
    BY <1>7 DEF CollectorReconciles, Serves, At
  <2>2. ASSUME NEW m \in Cached, Cached = {m}, seen[m].phase = "Finished",
               HandleFinished("collector", k, m)
        PROVE  Awake'
    <3>0. m \in Job /\ seen[m] # Absent /\ jobs[m] # Absent /\ jobs[m].phase = "Finished"
      BY <2>2 DEF Cached, IInv, TypeOK, CachesBehind
    <3>1. CASE /\ Done("collector", k) /\ UNCHANGED <<deleted, template, jobs>>
               /\ ~seen[m].deleteAfter
               /\ ~Exists(m) \/ seen[m] # jobs[m]
      <4>1. CASE Exists(m)
        <5>1. UnderWay(m)'
          BY <2>1, <3>0, <3>1, <4>1 DEF UnderWay, Exists
        <5> QED BY <3>0, <5>1 DEF Awake
      <4>2. CASE ~Exists(m)
        <5>1. Replaced(m)
          BY <3>0, <4>2 DEF WInv, PurgedAreReplaced, Exists
        <5>2. CASE FirstReconcile \in worker["collector"].queue \cup worker["collector"].timers
          <6>1. Drops("collector", k)
            BY <1>0, <3>1, IsDone
          <6>2. \/ FirstReconcile \in worker'["collector"].queue
                \/ FirstReconcile \in worker'["collector"].timers
            BY <2>1, <5>2, <6>1 DEF Drops
          <6> QED BY <6>2 DEF Awake
        <5>3. ASSUME NEW x \in Job, Exists(x), x \in template \/ jobs[x].phase # "New"
              PROVE  Awake'
          <6>1. seen[x] = Absent
            BY <2>2, <4>2, <5>3 DEF Cached
          <6>2. jobs[x].phase \in {"New", "Running", "Finished"}
            BY <5>3, Owners
          <6>3. UnderWay(x)'
            BY <2>1, <3>1, <5>3, <6>1, <6>2 DEF UnderWay, Exists
          <6> QED BY <6>3 DEF Awake
        <5> QED BY <2>1, <3>1, <5>1, <5>2, <5>3 DEF Replaced
      <4> QED BY <4>1, <4>2
    <3>2. CASE /\ Done("collector", k) /\ UNCHANGED <<deleted, template>>
               /\ ~seen[m].deleteAfter
               /\ Exists(m) /\ jobs'[m] # Absent /\ jobs'[m].phase = jobs[m].phase
               /\ jobs'[m].deleteAfter
      <4>1. UnderWay(m)'
        BY <2>1, <3>0, <3>2 DEF UnderWay, Exists
      <4> QED BY <3>0, <4>1 DEF Awake
    <3> QED BY <1>0, <1>1, <1>2, <2>2, <3>0, <3>1, <3>2, Handled
  <2> QED BY <1>1, <1>3, <1>7, <2>2 DEF CollectorReconciles
<1> QED BY <1>4, <1>5, <1>6, <1>7 DEF Serve

\* Each step keeps the collector awake.
LEMMA NextKeepsAwake ==
    ASSUME IInv, IInv', WInv, [Next]_vars, CollectorEnabled, list'.gen = 0,
           "set deleteAfter" \notin failed', list.gen = 0 => Awake
    PROVE  Awake'
<1>0. /\ worker \in [Controllers -> WorkerType] /\ jobs \in [Job -> Version]
      /\ seen \in [Job -> Version]
      /\ "collector" \in Controllers /\ "imagelist" \in Controllers
      /\ ImageList \in Key
      /\ \A m \in Job : m \in Key
      /\ Controllers = {"collector", "imagelist"}
  BY DEF IInv, TypeOK, Controllers, Key
<1>1. CASE Restart
  BY <1>1, StartedFacts DEF Restart, Awake
<1>2. list.gen = 0 \/ Restart
  <2>1. CASE list'.gen = list.gen
    BY <2>1
  <2>2. CASE UpdateList
    <3> QED BY <2>2, UpdatedIsThere DEF IInv
  <2>3. CASE SyncList
    BY <2>3 DEF SyncList, IInv, TypeOK
  <2>4. ASSUME NEW c \in Controllers, Serve(c) PROVE list'.gen = list.gen
    <3>1. ASSUME NEW k, CreateJob(c, k) PROVE list'.gen = list.gen
      BY <3>1 DEF CreateJob, IInv, TypeOK
    <3>2. ASSUME c = "imagelist", ListReconciles PROVE list'.gen = list.gen
      BY <3>1, <3>2 DEF ListReconciles, HandleOwnFinished, IInv, TypeOK
    <3> QED BY <2>4, <3>1, <3>2 DEF Serve, Continues, CreateTemplate, DropTemplate, Purge,
                                   AfterPurge, CollectorReconciles
  <2> QED BY <2>1, <2>2, <2>3, <2>4
          DEF Next, TimerFires, StartJob, FinishJob, Elapse, Sync, Created, Updated, Gone, vars
<1>3. ASSUME list.gen = 0, NEW c \in Controllers, Serve(c) PROVE Awake'
  <2>1. CASE c = "collector"
    BY <1>3, <2>1, CollectorStaysAwake
  <2>2. CASE c = "imagelist"
    BY <1>3, <2>2 DEF WInv, ListUnknown, Serve, Continues, ListReconciles, Serves, At
  <2> QED BY <1>0, <2>1, <2>2
<1>4. ASSUME list.gen = 0, NEW c \in Controllers, NEW k \in Key, TimerFires(c, k)
      PROVE  Awake'
  <2>1. UNCHANGED <<jobs, seen, deleted, template>>
    BY <1>4 DEF TimerFires, objects
  <2>2. ASSUME NEW n \in Job, UnderWay(n) PROVE UnderWay(n)'
    BY <2>1, <2>2, StaysUnderWay
  <2> QED BY <1>0, <1>2, <1>4, <2>2, Queued DEF Awake
<1>5. ASSUME list.gen = 0, NEW m \in Job, StartJob(m) \/ FinishJob(m) \/ Elapse(m)
      PROVE  Awake'
  <2>1. UNCHANGED <<worker, seen, deleted, template>>
    BY <1>5 DEF StartJob, FinishJob, Elapse
  <2>2. ASSUME jobs'[m] # jobs[m] PROVE UnderWay(m)'
    <3>1. /\ jobs[m].phase # "Finished" /\ Exists(m)
          /\ jobs'[m].phase \in {"Running", "Finished"}
      <4>1. CASE StartJob(m)
        <5>1. jobs[m] \in Version /\ jobs[m] # Absent
          BY <1>0, <4>1 DEF StartJob, Exists
        <5> QED BY <1>0, <4>1, <5>1, VersionPhase DEF StartJob
      <4>2. CASE FinishJob(m)
        <5>1. jobs[m] \in Version /\ jobs[m] # Absent
          BY <1>0, <4>2 DEF FinishJob, Exists
        <5>2. PICK due \in BOOLEAN :
                  jobs' = [jobs EXCEPT ![m].phase = "Finished", ![m].deleteAfter = due]
          BY <4>2 DEF FinishJob
        <5>3. jobs'[m] = [jobs[m] EXCEPT !.phase = "Finished", !.deleteAfter = due]
          BY <1>0, <5>1, <5>2
        <5>4. jobs'[m].phase = "Finished"
          <6>1. ASSUME NEW v \in Version, v # Absent
                PROVE  [v EXCEPT !.phase = "Finished", !.deleteAfter = due].phase = "Finished"
            BY <6>1 DEF Version, Absent
          <6> QED BY <5>1, <5>3, <6>1
        <5> QED BY <4>2, <5>4 DEF FinishJob
      <4> QED BY <1>5, <2>2, <4>1, <4>2 DEF Elapse
    <3>2. seen'[m].phase # "Finished" /\ jobs'[m] # Absent
      BY <2>1, <3>1, AbsentFacts DEF IInv, CachesBehind
    <3> QED BY <2>1, <3>1, <3>2 DEF UnderWay, Exists
  <2>3. ASSUME NEW n \in Job, UnderWay(n) PROVE \E x \in Job : UnderWay(x)'
    <3>1. n # m => jobs'[n] = jobs[n]
      BY <1>0, <1>5 DEF StartJob, FinishJob, Elapse
    <3> QED BY <2>1, <2>2, <2>3, <3>1, StaysUnderWay
  <2> QED BY <1>5, <2>1, <2>3 DEF Awake
<1>6. ASSUME list.gen = 0, NEW m \in Job, Sync(m) PROVE Awake'
  <2>1. CASE Created(m)
    <3>1. /\ UNCHANGED <<jobs, deleted, worker, template>> /\ jobs[m] # Absent
          /\ seen' = [seen EXCEPT ![m] = [jobs[m] EXCEPT !.phase = "New",
                                                         !.deleteAfter = FALSE]]
      BY <2>1 DEF Created, objects
    <3>2. seen'[m].phase = "New" /\ \A n \in Job : n # m => seen'[n] = seen[n]
      <4>1. [jobs[m] EXCEPT !.phase = "New", !.deleteAfter = FALSE].phase = "New"
        BY <1>0, <3>1, VersionBoth
      <4> QED BY <1>0, <3>1, <4>1
    <3>3. ASSUME NEW n \in Job, UnderWay(n) PROVE UnderWay(n)'
      BY <3>1, <3>2, <3>3 DEF UnderWay, Exists
    <3> QED BY <1>6, <3>1, <3>3 DEF Awake
  <2>2. CASE Updated(m)
    <3>1. /\ UNCHANGED <<jobs, deleted, template>> /\ jobs[m] # Absent
          /\ \A n \in Job : n # m => seen'[n] = seen[n]
          /\ UNCHANGED worker \/ Enqueue("collector", m) \/ Enqueue("imagelist", ImageList)
      BY <1>0, <2>2 DEF Updated, objects, IInv, TypeOK, Cached
    <3>2. ASSUME NEW n \in Job, UnderWay(n) PROVE Awake'
      <4>1. CASE n = m /\ jobs[n].phase = "Finished"
        <5>1. jobs[n].owner = "collector"
          BY <1>6, <3>1, <4>1 DEF WInv, ListUnknown
        <5>2. Enqueue("collector", m)
          BY <2>2, <4>1, <5>1 DEF Updated, Wakes
        <5> QED BY <1>0, <5>2, Queued DEF Awake
      <4>2. CASE n # m \/ jobs[n].phase # "Finished"
        <5>1. UnderWay(n)'
          BY <3>1, <3>2, <4>2 DEF UnderWay, Exists
        <5> QED BY <5>1 DEF Awake
      <4> QED BY <4>1, <4>2
    <3> QED BY <1>0, <1>6, <3>1, <3>2, Queued DEF Awake
  <2>3. CASE Gone(m)
    <3>1. /\ UNCHANGED <<worker, template>> /\ m \in deleted /\ deleted' = deleted \ {m}
          /\ \A n \in Job : n # m => jobs'[n] = jobs[n] /\ seen'[n] = seen[n]
      BY <1>0, <2>3 DEF Gone
    <3>2. ASSUME NEW n \in Job, UnderWay(n) PROVE UnderWay(n)'
      BY <3>1, <3>2 DEF UnderWay, Exists
    <3> QED BY <1>6, <3>1, <3>2 DEF Awake
  <2> QED BY <1>6, <2>1, <2>2, <2>3 DEF Sync
<1>7. ASSUME list.gen = 0, UpdateList \/ SyncList PROVE Awake'
  <2>1. UNCHANGED <<jobs, seen, deleted, template>>
        /\ (UNCHANGED worker \/ Enqueue("imagelist", ImageList))
    BY <1>7 DEF UpdateList, SyncList, objects
  <2>2. ASSUME NEW n \in Job, UnderWay(n) PROVE UnderWay(n)'
    BY <2>1, <2>2, StaysUnderWay
  <2> QED BY <1>0, <1>7, <2>1, <2>2, Queued DEF Awake
<1>8. CASE UNCHANGED vars
  BY <1>8 DEF vars, objects, Awake, UnderWay, Exists
<1> QED BY <1>1, <1>2, <1>3, <1>4, <1>5, <1>6, <1>7, <1>8 DEF Next

\* The collector never falls asleep in a cluster without an ImageList: for any
\* number of jobs, failures of the other calls and restarts, a collection that is
\* over leaves something behind that starts the next one.
THEOREM CollectorNeverSleeps == Spec => []CollectorIsAwake
<1>1. Init => CollectorIsAwake
  BY StartedFacts DEF Init, CollectorIsAwake, Pending
<1>2. IInv /\ IInv' /\ WInv /\ CollectorIsAwake /\ [Next]_vars => CollectorIsAwake'
  <2> SUFFICES ASSUME IInv, IInv', WInv, CollectorIsAwake, [Next]_vars,
                      CollectorEnabled, list'.gen = 0, "set deleteAfter" \notin failed'
               PROVE  Awake'
    BY DEF CollectorIsAwake, Awake, Pending, At
  <2>1. "set deleteAfter" \notin failed
    BY FailuresStay DEF IInv
  <2>2. list.gen = 0 => Awake
    BY <2>1 DEF CollectorIsAwake, Awake, Pending, At
  <2> QED BY <2>2, NextKeepsAwake
<1> QED BY <1>1, <1>2, Initially, Inductive, InitReplaces, NextReplaces, PTL DEF Spec
=============================================================================
