-------------------------- MODULE CompletionProofs --------------------------
(***************************************************************************)
(* What a completed ImageJob is worth, and that the controller implements  *)
(* JobLifecycle: for any number of jobs, nodes, faults and restarts.       *)
(*                                                                         *)
(* The argument for Completed: the pods that were counted are pods of the  *)
(* job, as no other job of its type has pods; they are on selected nodes,  *)
(* one on each; and there are as many of them as selected nodes.           *)
(***************************************************************************)
EXTENDS ImageJobProofs

\* Pods are on selected nodes, also those still to be created.
OnSelected ==
    /\ \A p \in Pod : Born(p) => p[2] \in Selected
    /\ worker.pc = "pods" => worker.todo \subseteq Selected

\* A pod that has been seen was born, and stays so.
LogsGrow ==
    \A p \in Pod : \A i \in 1 .. Len(podLog[p]) :
        podLog[p][i] # "absent" => Born(p)

\* The counters a job starts with.
Counts(status) ==
    status.phase = "Running" =>
        /\ status.desired = Cardinality(Node)
        /\ status.skipped = Cardinality(Node \ Selected)

StartCounts ==
    /\ \A j \in Job : \A v \in 1 .. Len(versions[j]) : Counts(versions[j][v])
    /\ worker.pc = "update" => Counts(worker.outcome)

\* While its pods are created, nobody but an owner touches the job.
PlacesInTime == worker.pc = "pods" => Phase(worker.job) \in {"Running", "gone"}

\* A pod of j on n has succeeded.
NodeDone(j, n) ==
    \E s \in Suffix : \E i \in 1 .. Len(podLog[<<j, n, s>>]) :
        podLog[<<j, n, s>>][i] = "Succeeded"

\* The verdict Completed, given or about to be, is earned.
Earned(j) == RatioNum > 0 /\ OnlyOneOfItsType(j) => \A n \in Selected : NodeDone(j, n)

VerdictsEarned ==
    \A j \in Job :
        (\/ Phase(j) = "Completed"
         \/ worker.pc = "update" /\ worker.job = j /\ worker.outcome.phase = "Completed")
        => Earned(j)

CInv == OnSelected /\ LogsGrow /\ StartCounts /\ PlacesInTime /\ VerdictsEarned

-----------------------------------------------------------------------------
(* What a step does to jobs, pods and the worker.                          *)

\* A new version of a job, by its owner or by the worker.
Publishes(j, s) ==
    /\ Write(j, s) /\ LegalMove(j, s) /\ UNCHANGED podLog
    /\ \/ /\ UNCHANGED worker
          /\ \/ s.phase \in {"New", "gone"}
             \/ Phase(j) \in Terminal /\ s.phase = Phase(j)
       \/ /\ worker.pc = "update" /\ worker.job = j /\ s = worker.outcome
          /\ \/ worker' = Idle
             \/ /\ s.phase = "Running"
                /\ worker'.pc = "pods" /\ worker'.job = j /\ worker'.todo = Selected

\* A pod that exists goes on.
Moves(p, ph) ==
    /\ ph # "absent" /\ Born(p)
    /\ PodMoves(p, ph) /\ UNCHANGED <<versions, worker>>

\* A pod is created on a node to do.
Places(p) ==
    /\ Creates(p) /\ UNCHANGED versions
    /\ worker.pc = "pods" /\ worker.job = p[1] /\ p[2] \in worker.todo
    /\ \/ worker' = Idle
       \/ worker'.pc = "pods" /\ worker'.job = worker.job
          /\ worker'.todo \subseteq worker.todo

\* What the worker may decide to write about a running job.
Missing == [Blank("Failed") EXCEPT !.deleteAfter = TRUE]
Verdict(j) == {Missing} \cup {Tally(JobSeen(j), Listed(j))}

\* Nothing but the worker changes.
Thinks ==
    /\ UNCHANGED <<versions, podLog>>
    /\ \/ UNCHANGED worker
       \/ worker' = Idle
       \/ worker.pc = "pods" /\ worker'.pc = "pods" /\ worker'.job = worker.job
          /\ worker'.todo \subseteq worker.todo
       \/ \E j \in Job : Decides(j, Started)
       \/ \E j \in Job : /\ JobSeen(j).phase = "Running"
                         /\ \E s \in Verdict(j) : Decides(j, s)

\* The owner of a job thinks, or publishes a legal version of it.
LEMMA OwnerEffect ==
    ASSUME IInv, NEW j \in Job, Owner(j)
    PROVE  Thinks \/ \E s \in Status : Publishes(j, s)
<1>1. JobNow(j) \in Status
  BY DEF IInv, TypeOK, CachesBehind, JobNow, Latest
<1>2. CASE CreateJob(j)
  <2>1. Blank("New") \in Status /\ Blank("New").phase = "New"
    BY BlankType DEF Phases
  <2> QED BY <2>1, <1>2 DEF CreateJob, Publishes, LegalMove, caches
<1>3. CASE SetDeleteAfter(j)
  <2> DEFINE s == [JobNow(j) EXCEPT !.deleteAfter = TRUE]
  <2>1. s \in Status /\ s.phase = Phase(j)
    BY <1>1 DEF Status, Phase
  <2>2. Phase(j) \in Terminal /\ Write(j, s) /\ UNCHANGED <<podLog, worker>>
    BY <1>3 DEF SetDeleteAfter
  <2>3. LegalMove(j, s)
    BY <2>2 DEF LegalMove
  <2> HIDE DEF s
  <2> QED BY <2>1, <2>2, <2>3 DEF Publishes
<1>4. CASE DeleteJob(j)
  <2>1. Blank("gone") \in Status /\ Blank("gone").phase = "gone"
    BY BlankType DEF Phases
  <2> QED BY <2>1, <1>4 DEF DeleteJob, Publishes, LegalMove, caches
<1>5. CASE CreateTemplate(j) \/ DeleteTemplate(j)
  BY <1>5 DEF CreateTemplate, DeleteTemplate, Thinks
<1> QED BY <1>2, <1>3, <1>4, <1>5 DEF Owner

\* A reconcile reads the caches and decides; it writes nothing.
LEMMA ReconcileEffect ==
    ASSUME IInv, NEW j \in Job, Reconcile(j)
    PROVE  Thinks
<1>1. CASE ReconcileNothing(j)
  BY <1>1 DEF ReconcileNothing, Done, Thinks, objects
<1>2. CASE ReconcileNew(j)
  BY <1>2 DEF ReconcileNew, Retry, Thinks, objects
<1>3. CASE ReconcileRunning(j)
  <2>1. UNCHANGED <<versions, podLog>> /\ JobSeen(j).phase = "Running"
    BY <1>3 DEF ReconcileRunning, Takes, objects
  <2>2. worker' = Idle \/ \E s \in Verdict(j) : Decides(j, s)
    BY <1>3 DEF ReconcileRunning, Done, Verdict, Missing
  <2> QED BY <2>1, <2>2 DEF Thinks
<1> QED BY <1>1, <1>2, <1>3 DEF Reconcile

\* The rest of a reconcile publishes the decided status, or gives up.
LEMMA ProceedEffect ==
    ASSUME IInv, NEW j \in Job, Proceed(j)
    PROVE  Thinks \/ \E s \in Status : Publishes(j, s)
<1>1. CASE UpdateStatus(j) \/ (UpdateFails(j) /\ Write(j, worker.outcome)
                                              /\ UpdateAccepted(j, worker.seen))
  <2>1. /\ worker.pc = "update" /\ worker.job = j /\ UpdateAccepted(j, worker.seen)
        /\ Write(j, worker.outcome) /\ UNCHANGED podLog
    BY <1>1 DEF UpdateStatus, UpdateFails
  <2>2. LegalMove(j, worker.outcome) /\ worker.outcome \in Status
    BY <2>1, AcceptedIsLegal
  <2>3. \/ worker' = Idle
        \/ /\ worker.outcome.phase = "Running"
           /\ worker'.pc = "pods" /\ worker'.job = j /\ worker'.todo = Selected
    BY <1>1 DEF UpdateStatus, UpdateFails, AfterUpdate, Retry, Idle
  <2> QED BY <2>1, <2>2, <2>3 DEF Publishes
<1>2. CASE UpdateConflicts(j) \/ PodsPolled(j) \/ (UpdateFails(j) /\ UNCHANGED versions)
  BY <1>2 DEF UpdateConflicts, PodsPolled, UpdateFails, Retry, Thinks, objects
<1> QED BY <1>1, <1>2 DEF Proceed, UpdateFails

\* The cluster takes a pod from one phase to another.
LEMMA ClusterEffect ==
    ASSUME IInv, NEW p \in Pod, Cluster(p)
    PROVE  \E ph \in PodPhases : Moves(p, ph)
BY DEF Cluster, Kubelet, PodRuns, ContainerFails, PodSucceeds, PodFails, PodLost,
       CollectPod, Moves, Born, PodPhases, Active

\* The creation of the pods puts one pod on a node, or nothing at all.
LEMMA ProceedPodEffect ==
    ASSUME IInv, NEW p \in Pod, ProceedPod(p)
    PROVE  Thinks \/ Places(p)
<1>1. worker \in WorkerType
  BY DEF IInv, TypeOK, WorkerType
<1>2. CASE CreatePod(p)
  <2>1. worker'.pc = "pods" /\ worker'.job = worker.job /\ worker'.todo \subseteq worker.todo
    BY <1>1, <1>2 DEF CreatePod, WorkerType
  <2> QED BY <2>1, <1>2 DEF CreatePod, Places
<1>3. CASE CreatePodFails(p)
  BY <1>3 DEF CreatePodFails, Retry, Places, Thinks
<1>4. CASE StopPolling(p)
  <2>1. worker'.pc = "pods" /\ worker'.job = worker.job /\ worker'.todo \subseteq worker.todo
    BY <1>1, <1>4 DEF StopPolling, WorkerType
  <2> QED BY <2>1, <1>4 DEF StopPolling, Thinks, objects
<1> QED BY <1>2, <1>3, <1>4 DEF ProceedPod

\* Every step is one of the four.
LEMMA Effects ==
    ASSUME IInv, [Next]_vars
    PROVE  \/ \E j \in Job, s \in Status : Publishes(j, s)
           \/ \E p \in Pod, ph \in PodPhases : Moves(p, ph)
           \/ \E p \in Pod : Places(p)
           \/ Thinks
<1>1. CASE UNCHANGED vars
  BY <1>1 DEF vars, objects, Thinks
<1>2. CASE \E j \in Job : SyncJob(j) \/ SyncTemplate(j) \/ Resync(j)
  BY <1>2 DEF SyncJob, SyncTemplate, Resync, Thinks, objects
<1>3. CASE \E p \in Pod : SyncPod(p)
  BY <1>3 DEF SyncPod, Thinks, objects
<1>4. CASE Restart
  BY <1>4 DEF Restart, Thinks
<1>5. CASE \E j \in Job : Owner(j) \/ Reconcile(j) \/ Proceed(j)
  BY <1>5, OwnerEffect, ReconcileEffect, ProceedEffect
<1>6. CASE \E p \in Pod : Cluster(p) \/ ProceedPod(p)
  BY <1>6, ClusterEffect, ProceedPodEffect
<1> QED BY <1>1, <1>2, <1>3, <1>4, <1>5, <1>6 DEF Next

-----------------------------------------------------------------------------
(* What is earned stays earned.                                            *)

\* The types the lemmas below need of the two histories.
LEMMA LogFacts ==
    ASSUME IInv
    PROVE  /\ versions \in [Job -> Seq(Status)] /\ podLog \in [Pod -> Seq(PodPhases)]
           /\ \A j \in Job : Len(versions[j]) \in Nat \ {0} /\ JobNow(j) \in Status
           /\ \A p \in Pod : Len(podLog[p]) \in Nat \ {0}
<1>1. /\ versions \in [Job -> Seq(Status)] /\ podLog \in [Pod -> Seq(PodPhases)]
      /\ jobCache \in [Job -> Nat \ {0}] /\ podCache \in [Pod -> Nat \ {0}]
      /\ \A i \in Job : jobCache[i] <= Len(versions[i])
      /\ \A q \in Pod : podCache[q] <= Len(podLog[q])
  BY DEF IInv, TypeOK, CachesBehind
<1>2. \A j \in Job : Len(versions[j]) \in Nat \ {0}
  BY <1>1
<1>3. \A p \in Pod : Len(podLog[p]) \in Nat \ {0}
  BY <1>1
<1>4. \A j \in Job : JobNow(j) \in Status
  BY <1>1, <1>2 DEF JobNow, Latest
<1> QED BY <1>1, <1>2, <1>3, <1>4

\* A job that exists, or has existed, does not become absent again.
LEMMA PublishKeeps ==
    ASSUME IInv, NEW j \in Job, NEW s \in Status, Publishes(j, s)
    PROVE  /\ \A i \in Job : Earned(i) => Earned(i)'
           /\ \A i \in Job \ {j} : JobNow(i)' = JobNow(i) /\ versions'[i] = versions[i]
           /\ JobNow(j)' = s /\ Phase(j)' = s.phase
           /\ Len(versions'[j]) = Len(versions[j]) + 1
           /\ \A v \in 1 .. Len(versions[j]) : versions'[j][v] = versions[j][v]
           /\ versions'[j][Len(versions[j]) + 1] = s
<1>1. /\ versions' \in [Job -> Seq(Status)]
      /\ Len(versions'[j]) = Len(versions[j]) + 1
      /\ JobNow(j)' = s
      /\ \A v \in 1 .. Len(versions[j]) : versions'[j][v] = versions[j][v]
      /\ \A i \in Job \ {j} : versions'[i] = versions[i]
  BY LogFacts, WriteFacts DEF Publishes
<1>2. \A i \in Job \ {j} : JobNow(i)' = JobNow(i)
  BY <1>1 DEF JobNow, Latest
<1>3. versions'[j][Len(versions[j]) + 1] = s
  BY <1>1 DEF JobNow, Latest
<1>4. s.phase # "absent"
  <2>1. [JobNow(j) EXCEPT !.deleteAfter = TRUE].phase = Phase(j)
    BY LogFacts DEF Phase, Status
  <2> QED BY <2>1 DEF Publishes, LegalMove, Terminal
<1>5. \A i \in Job : Phase(i)' = "absent" => Phase(i) = "absent"
  BY <1>1, <1>2, <1>4 DEF Phase
<1>6. \A i \in Job : OnlyOneOfItsType(i)' => OnlyOneOfItsType(i)
  BY <1>5 DEF OnlyOneOfItsType, SameType
<1>7. UNCHANGED podLog
  BY DEF Publishes
<1>8. \A i \in Job, n \in Node : NodeDone(i, n) => NodeDone(i, n)'
  BY <1>7 DEF NodeDone
<1>9. \A i \in Job : Earned(i) => Earned(i)'
  BY <1>6, <1>8, SelectedType DEF Earned
<1> QED BY <1>1, <1>2, <1>3, <1>9 DEF Phase

\* A longer log has what it had.
LEMMA PodStepKeeps ==
    ASSUME IInv, NEW p \in Pod, NEW ph \in PodPhases,
           podLog' = [podLog EXCEPT ![p] = Append(@, ph)], UNCHANGED versions
    PROVE  /\ \A i \in Job : Phase(i)' = Phase(i) /\ (Earned(i) => Earned(i)')
           /\ \A q \in Pod \ {p} : podLog'[q] = podLog[q] /\ (Born(q)' <=> Born(q))
           /\ Len(podLog'[p]) = Len(podLog[p]) + 1
           /\ PodNow(p)' = ph /\ podLog'[p][Len(podLog[p]) + 1] = ph
           /\ \A i \in 1 .. Len(podLog[p]) : podLog'[p][i] = podLog[p][i]
           /\ \A i \in Job, n \in Node : NodeDone(i, n) => NodeDone(i, n)'
<1>1. /\ podLog' \in [Pod -> Seq(PodPhases)]
      /\ Len(podLog'[p]) = Len(podLog[p]) + 1
      /\ PodNow(p)' = ph
      /\ \A i \in 1 .. Len(podLog[p]) : podLog'[p][i] = podLog[p][i]
      /\ \A q \in Pod \ {p} : podLog'[q] = podLog[q]
  BY LogFacts, PodMovesFacts
<1>2. podLog'[p][Len(podLog[p]) + 1] = ph
  BY <1>1 DEF PodNow, Latest
<1>3. \A q \in Pod \ {p} : Born(q)' <=> Born(q)
  BY <1>1 DEF Born, PodNow, Latest
<1>4. \A i \in Job : Phase(i)' = Phase(i)
  BY DEF Phase, JobNow, Latest
<1>5. \A q \in Pod : /\ 1 .. Len(podLog[q]) \subseteq 1 .. Len(podLog'[q])
                     /\ \A i \in 1 .. Len(podLog[q]) : podLog'[q][i] = podLog[q][i]
  <2>1. \A q \in Pod : Len(podLog[q]) \in Nat
    BY LogFacts
  <2> QED BY <1>1, <2>1
<1>6. ASSUME NEW i \in Job, NEW n \in Node, NodeDone(i, n) PROVE NodeDone(i, n)'
  <2>1. PICK s \in Suffix : \E k \in 1 .. Len(podLog[<<i, n, s>>]) :
                               podLog[<<i, n, s>>][k] = "Succeeded"
    BY <1>6 DEF NodeDone
  <2>2. <<i, n, s>> \in Pod
    BY DEF Pod
  <2> QED BY <2>1, <2>2, <1>5 DEF NodeDone
<1>7. \A i \in Job : Earned(i) => Earned(i)'
  BY <1>4, <1>6, SelectedType DEF Earned, OnlyOneOfItsType, SameType
<1> QED BY <1>1, <1>2, <1>3, <1>4, <1>6, <1>7

-----------------------------------------------------------------------------
(* A verdict that is Completed has counted a pod on every selected node.   *)

\* An integer quotient that is above zero.
LEMMA QuotientFacts ==
    ASSUME NEW a \in Nat, NEW d \in Nat \ {0}, NEW r \in Nat \ {0},
           ~((a \div d) * RatioDen < r)
    PROVE  a >= d
<1>1. CASE a < d
  <2>1. a \div d = 0
    BY <1>1, SMT
  <2>2. RatioDen \in Nat /\ 0 * RatioDen = 0
    BY ImageJobAssumption
  <2> QED BY <2>1, <2>2
<1> QED BY <1>1

\* A count that comes to Completed is a count of pods that have succeeded.
LEMMA TallyEarned ==
    ASSUME IInv, CInv, NEW j \in Job, JobSeen(j).phase = "Running",
           Tally(JobSeen(j), Listed(j)).phase = "Completed"
    PROVE  Earned(j)
<1> SUFFICES ASSUME RatioNum > 0, OnlyOneOfItsType(j)
             PROVE  \A n \in Selected : NodeDone(j, n)
  BY DEF Earned
<1> DEFINE good == {p \in Listed(j) : PodSeen(p) = "Succeeded"}
           f == [p \in good |-> p[2]]
           ok == Cardinality(good)
           status == JobSeen(j)
<1>1. \A p \in Pod : podCache[p] \in 1 .. Len(podLog[p])
  BY DEF IInv, TypeOK, CachesBehind
<1>2. \A p \in good : /\ p \in Pod /\ SameType(p[1], j) /\ Born(p)
                      /\ podLog[p][podCache[p]] = "Succeeded"
  BY <1>1 DEF Listed, PodSeen, CInv, LogsGrow
<1>3. \A p \in good : p[1] = j
  BY <1>2 DEF OnlyOneOfItsType, IInv, PodsOnlyOfStartedJobs, Pod
<1>4. \A p \in good : p[2] \in Selected
  BY <1>2 DEF CInv, OnSelected
<1>5. \A p, q \in good : p[2] = q[2] => p = q
  BY <1>2, <1>3 DEF IInv, OnePodPerNode, Pod
<1>6. f \in Injection(good, Selected)
  BY <1>4, <1>5 DEF Injection, IsInjective
<1>7. /\ IsFiniteSet(Selected) /\ IsFiniteSet(Node)
      /\ Cardinality(Node \ Selected) = Cardinality(Node) - Cardinality(Selected)
  <2>1. Node \cap Selected = Selected
    BY SelectedType
  <2> QED BY <2>1, SelectedType, ImageJobAssumption, FS_Subset, FS_Difference
<1>8. /\ Cardinality(Node) \in Nat \ {0} /\ Cardinality(Selected) \in Nat
      /\ Cardinality(Node \ Selected) \in Nat
  <2>1. Cardinality(Node) \in Nat /\ Cardinality(Selected) \in Nat
    BY <1>7, FS_CardinalityType
  <2>2. Cardinality(Node) # 0
    BY <1>7, FS_EmptySet, ImageJobAssumption
  <2>3. Cardinality(Node \ Selected) \in Nat
    BY <1>7, FS_Difference, FS_CardinalityType
  <2> QED BY <2>1, <2>2, <2>3
<1>9. IsFiniteSet(good) /\ ok \in Nat /\ ok <= Cardinality(Selected)
  <2> HIDE DEF good, f
  <2> QED BY <1>6, <1>7, FS_Injection, FS_CardinalityType
<1>10. status.desired = Cardinality(Node) /\ status.skipped = Cardinality(Node \ Selected)
  <2>1. jobCache[j] \in 1 .. Len(versions[j])
    BY DEF IInv, TypeOK, CachesBehind
  <2> QED BY <2>1 DEF CInv, StartCounts, Counts, JobSeen
<1>11. ~(((ok + status.skipped) \div status.desired) * RatioDen < RatioNum)
  <2>1. status \in Status
    BY DEF IInv, TypeOK, CachesBehind, JobSeen
  <2> DEFINE phase == IF ((ok + status.skipped) \div status.desired) * RatioDen < RatioNum
                      THEN "Failed" ELSE "Completed"
  <2>2. phase = "Completed"
    BY <2>1 DEF Tally, Status
  <2> HIDE DEF ok, status
  <2> QED BY <2>2
<1>12. ok + Cardinality(Node \ Selected) >= Cardinality(Node)
  <2> HIDE DEF ok, status
  <2> QED BY <1>8, <1>9, <1>10, <1>11, QuotientFacts, ImageJobAssumption
<1>13. ok = Cardinality(Selected)
  <2> HIDE DEF ok
  <2> QED BY <1>7, <1>8, <1>9, <1>12
<1>14. f \in Surjection(good, Selected)
  <2> HIDE DEF good, f
  <2> QED BY <1>6, <1>7, <1>13, FS_Injection
<1> TAKE n \in Selected
<1>15. PICK p \in good : p[2] = n
  BY <1>14 DEF Surjection
<1>16. p = <<j, n, p[3]>> /\ p[3] \in Suffix
  BY <1>2, <1>3, <1>15 DEF Pod
<1> QED BY <1>1, <1>2, <1>15, <1>16 DEF NodeDone

-----------------------------------------------------------------------------
(* The invariant: one lemma per effect.                                    *)

\* A published version is one that the pods have earned.
LEMMA PublishStep ==
    ASSUME IInv, CInv, NEW j \in Job, NEW s \in Status, Publishes(j, s)
    PROVE  CInv'
<1>1. /\ \A i \in Job : Earned(i) => Earned(i)'
      /\ \A i \in Job \ {j} : JobNow(i)' = JobNow(i) /\ versions'[i] = versions[i]
      /\ JobNow(j)' = s /\ Phase(j)' = s.phase
      /\ Len(versions'[j]) = Len(versions[j]) + 1
      /\ \A v \in 1 .. Len(versions[j]) : versions'[j][v] = versions[j][v]
      /\ versions'[j][Len(versions[j]) + 1] = s
  BY PublishKeeps
<1>2. /\ Len(versions[j]) \in Nat \ {0} /\ UNCHANGED podLog
      /\ \A i \in Job \ {j} : Phase(i)' = Phase(i)
  BY <1>1, LogFacts DEF Publishes, Phase
<1>3. \/ UNCHANGED worker
      \/ worker' = Idle
      \/ worker'.pc = "pods" /\ worker'.job = j /\ worker'.todo = Selected
         /\ s.phase = "Running"
  BY DEF Publishes
<1>4. worker'.pc = "update" => UNCHANGED worker
  BY <1>3 DEF Idle
<1>5. OnSelected'
  <2>1. \A p \in Pod : Born(p)' => p[2] \in Selected
    BY <1>2 DEF CInv, OnSelected, Born, PodNow, Latest
  <2> QED BY <2>1, <1>3 DEF CInv, OnSelected, Idle
<1>6. LogsGrow'
  BY <1>2 DEF CInv, LogsGrow, Born, PodNow, Latest
<1>7. StartCounts'
  <2>1. Counts(s)
    BY DEF CInv, StartCounts, Publishes, Counts, Terminal
  <2>2. \A v \in 1 .. Len(versions'[j]) : Counts(versions'[j][v])
    <3> TAKE v \in 1 .. Len(versions'[j])
    <3>1. CASE v \in 1 .. Len(versions[j])
      BY <3>1, <1>1 DEF CInv, StartCounts
    <3>2. CASE v = Len(versions[j]) + 1
      BY <3>2, <1>1, <2>1
    <3> QED BY <3>1, <3>2, <1>1, <1>2
  <2>3. \A i \in Job \ {j} : \A v \in 1 .. Len(versions'[i]) : Counts(versions'[i][v])
    BY <1>1 DEF CInv, StartCounts
  <2> QED BY <2>2, <2>3, <1>4 DEF CInv, StartCounts
<1>8. PlacesInTime'
  <2>1. CASE UNCHANGED worker
    <3>1. s.phase \in {"New", "gone"} \/ Phase(j) \in Terminal \/ worker.pc = "update"
      BY DEF Publishes
    <3>2. s.phase = "New" => Phase(j) = "absent"
      <4>1. [JobNow(j) EXCEPT !.deleteAfter = TRUE].phase = Phase(j)
        BY LogFacts DEF Phase, Status
      <4> QED BY <4>1 DEF Publishes, LegalMove, Terminal
    <3> QED BY <3>1, <3>2, <2>1, <1>1, <1>2 DEF CInv, PlacesInTime, Terminal, IInv, WorkerCreates
  <2>2. CASE worker' = Idle
    BY <2>2 DEF PlacesInTime, Idle
  <2>3. CASE worker'.pc = "pods" /\ worker'.job = j /\ s.phase = "Running"
    BY <2>3, <1>1 DEF PlacesInTime
  <2> QED BY <1>3, <2>1, <2>2, <2>3
<1>9. VerdictsEarned'
  <2>1. Phase(j)' = "Completed" => Earned(j)'
    BY <1>1 DEF CInv, VerdictsEarned, Publishes
  <2>2. \A i \in Job \ {j} : Phase(i)' = "Completed" => Earned(i)'
    BY <1>1, <1>2 DEF CInv, VerdictsEarned
  <2>3. \A i \in Job : worker'.pc = "update" /\ worker'.job = i
                       /\ worker'.outcome.phase = "Completed" => Earned(i)'
    BY <1>1, <1>4 DEF CInv, VerdictsEarned
  <2> QED BY <2>1, <2>2, <2>3 DEF VerdictsEarned
<1> QED BY <1>5, <1>6, <1>7, <1>8, <1>9 DEF CInv

\* A pod that moves on leaves earned what was earned.
LEMMA MoveStep ==
    ASSUME IInv, CInv, NEW p \in Pod, NEW ph \in PodPhases, Moves(p, ph)
    PROVE  CInv'
<1>1. /\ \A i \in Job : Phase(i)' = Phase(i) /\ (Earned(i) => Earned(i)')
      /\ \A q \in Pod \ {p} : podLog'[q] = podLog[q] /\ (Born(q)' <=> Born(q))
      /\ PodNow(p)' = ph
      /\ UNCHANGED <<versions, worker>>
  BY PodStepKeeps DEF Moves, PodMoves
<1>2. Born(p)' /\ Born(p)
  BY <1>1 DEF Moves, Born
<1>3. OnSelected'
  BY <1>1, <1>2 DEF CInv, OnSelected
<1>4. LogsGrow'
  BY <1>1, <1>2 DEF CInv, LogsGrow
<1>5. StartCounts' /\ PlacesInTime'
  BY <1>1 DEF CInv, StartCounts, PlacesInTime, IInv, WorkerCreates
<1>6. VerdictsEarned'
  BY <1>1 DEF CInv, VerdictsEarned, IInv, WorkerUpdates
<1> QED BY <1>3, <1>4, <1>5, <1>6 DEF CInv

\* A pod is placed only for a job that runs, or is gone.
LEMMA PlaceStep ==
    ASSUME IInv, CInv, NEW p \in Pod, Places(p)
    PROVE  CInv'
<1>0. "Pending" \in PodPhases /\ podLog' = [podLog EXCEPT ![p] = Append(@, "Pending")]
      /\ UNCHANGED versions
  BY DEF Places, Creates, PodPhases, Active
<1>1. /\ \A i \in Job : Phase(i)' = Phase(i) /\ (Earned(i) => Earned(i)')
      /\ \A q \in Pod \ {p} : podLog'[q] = podLog[q] /\ (Born(q)' <=> Born(q))
      /\ PodNow(p)' = "Pending"
  BY <1>0, PodStepKeeps
<1>2. Born(p)' /\ p[2] \in Selected
  BY <1>1 DEF Places, Born, CInv, OnSelected
<1>3. worker' = Idle \/ (worker'.pc = "pods" /\ worker'.job = worker.job
                         /\ worker'.todo \subseteq worker.todo)
  BY DEF Places
<1>4. OnSelected'
  BY <1>1, <1>2, <1>3 DEF CInv, OnSelected, Places, Idle
<1>5. LogsGrow'
  BY <1>1, <1>2 DEF CInv, LogsGrow
<1>6. StartCounts' /\ PlacesInTime'
  BY <1>0, <1>1, <1>3 DEF CInv, StartCounts, PlacesInTime, IInv, WorkerCreates, Places, Idle
<1>7. VerdictsEarned'
  BY <1>1, <1>3 DEF CInv, VerdictsEarned, Idle
<1> QED BY <1>4, <1>5, <1>6, <1>7 DEF CInv

\* A decision that is taken from the caches is earned when it is taken.
LEMMA ThinkStep ==
    ASSUME IInv, CInv, Thinks
    PROVE  CInv'
<1>1. UNCHANGED <<versions, podLog>>
  BY DEF Thinks
<1>2. /\ \A i \in Job : Phase(i)' = Phase(i) /\ (Earned(i)' <=> Earned(i))
      /\ \A q \in Pod : Born(q)' <=> Born(q)
  BY <1>1 DEF Phase, JobNow, Latest, Born, PodNow, Earned, OnlyOneOfItsType, NodeDone
<1>3. LogsGrow' /\ \A i \in Job : \A v \in 1 .. Len(versions'[i]) : Counts(versions'[i][v])
  BY <1>1, <1>2 DEF CInv, LogsGrow, StartCounts
<1>4. ASSUME worker' = Idle \/ UNCHANGED worker
             \/ (worker.pc = "pods" /\ worker'.pc = "pods" /\ worker'.job = worker.job
                 /\ worker'.todo \subseteq worker.todo)
      PROVE  CInv'
  <2>1. OnSelected' /\ PlacesInTime'
    BY <1>2, <1>4 DEF CInv, OnSelected, PlacesInTime, IInv, WorkerCreates, Idle
  <2>2. StartCounts'
    BY <1>3, <1>4 DEF CInv, StartCounts, Idle
  <2>3. VerdictsEarned'
    BY <1>2, <1>4 DEF CInv, VerdictsEarned, IInv, WorkerUpdates, Idle
  <2> QED BY <2>1, <2>2, <2>3, <1>3 DEF CInv
<1>5. ASSUME NEW j \in Job, NEW s, Decides(j, s), Counts(s), s.phase = "Completed" => Earned(j)
      PROVE  CInv'
  <2>1. worker'.pc = "update" /\ worker'.job = j /\ worker'.outcome = s
    BY <1>5 DEF Decides, Idle
  <2>2. OnSelected' /\ PlacesInTime'
    BY <1>2, <2>1 DEF CInv, OnSelected, PlacesInTime
  <2>3. StartCounts'
    BY <1>3, <1>5, <2>1 DEF StartCounts
  <2>4. VerdictsEarned'
    BY <1>2, <1>5, <2>1 DEF CInv, VerdictsEarned
  <2> QED BY <2>2, <2>3, <2>4, <1>3 DEF CInv
<1>6. CASE \E j \in Job : Decides(j, Started)
  <2>1. Counts(Started) /\ Started.phase # "Completed"
    BY StartedType DEF Started, Counts, Blank
  <2> QED BY <2>1, <1>5, <1>6
<1>7. CASE \E j \in Job : JobSeen(j).phase = "Running" /\ Decides(j, Missing)
  <2>1. Counts(Missing) /\ Missing.phase # "Completed"
    BY DEF Missing, Counts, Blank
  <2> QED BY <2>1, <1>5, <1>7
<1>8. CASE \E j \in Job : JobSeen(j).phase = "Running"
                          /\ Decides(j, Tally(JobSeen(j), Listed(j)))
  <2> PICK j \in Job : JobSeen(j).phase = "Running" /\ Decides(j, Tally(JobSeen(j), Listed(j)))
    BY <1>8
  <2>1. JobSeen(j) \in Status /\ Listed(j) \in SUBSET Pod
    BY DEF IInv, TypeOK, CachesBehind, JobSeen, Listed
  <2>2. Counts(Tally(JobSeen(j), Listed(j)))
    BY <2>1, TallyType DEF Counts, Terminal
  <2>3. Tally(JobSeen(j), Listed(j)).phase = "Completed" => Earned(j)
    BY TallyEarned
  <2> QED BY <2>2, <2>3, <1>5
<1> QED BY <1>4, <1>6, <1>7, <1>8 DEF Thinks, Verdict

\* At the start there is no verdict and no pod.
LEMMA InitCInv == Init => CInv
<1> SUFFICES ASSUME Init PROVE CInv
  OBVIOUS
<1>1. /\ \A j \in Job : versions[j] = <<Blank("absent")>>
      /\ \A p \in Pod : podLog[p] = <<"absent">>
      /\ Blank("absent").phase = "absent" /\ worker.pc = "idle"
  BY DEF Init, Blank, Idle
<1>2. \A p \in Pod : ~Born(p)
  BY <1>1 DEF Born, PodNow, Latest
<1>3. \A j \in Job : Phase(j) = "absent"
  BY <1>1 DEF Phase, JobNow, Latest
<1>4. OnSelected /\ LogsGrow
  BY <1>1, <1>2 DEF OnSelected, LogsGrow
<1>5. StartCounts
  BY <1>1 DEF StartCounts, Counts
<1>6. PlacesInTime /\ VerdictsEarned
  BY <1>1, <1>3 DEF PlacesInTime, VerdictsEarned
<1> QED BY <1>4, <1>5, <1>6 DEF CInv

\* Every step has one of the effects above.
LEMMA NextCInv == IInv /\ CInv /\ [Next]_vars => CInv'
BY Effects, PublishStep, MoveStep, PlaceStep, ThinkStep

\* The invariant of ImageJobProofs and the one above hold of every reachable
\* state of the controller: together they are inductive.
THEOREM InductiveC == Spec => [](IInv /\ CInv)
<1>1. Init => IInv /\ CInv
  BY InitIInv, InitCInv
<1>2. IInv /\ CInv /\ [Next]_vars => (IInv /\ CInv)'
  BY NextIInv, NextCInv
<1> QED BY <1>1, <1>2, PTL DEF Spec

\* With a ratio above zero, a job that has been the only one of its type is
\* Completed only if a pod of it succeeded on every selected node, whatever was
\* lost, repeated or read too late, and however the counters were rounded.
THEOREM CompletedIsEarned == Spec => []CompletedMeansEveryNodeDone
<1>1. IInv /\ CInv => CompletedMeansEveryNodeDone
  BY DEF CInv, VerdictsEarned, Earned, NodeDone, CompletedMeansEveryNodeDone
<1> QED BY <1>1, InductiveC, PTL

-----------------------------------------------------------------------------
(* No job is forgotten.  The worker that polls pods drops its job when the  *)
(* polls are over, so the event of the status it wrote must still be there, *)
(* or have queued the job.                                                  *)

PolledIsQueued ==
    worker.pc = "pods" /\ Phase(worker.job) = "Running" =>
        \/ worker.job \in queue
        \/ jobCache[worker.job] < Len(versions[worker.job])

FInv == PolledIsQueued /\ NoJobForgotten

\* The last version that a cache shows is the job as it is.
LEMMA SeenIsNow ==
    ASSUME IInv, NEW j \in Job
    PROVE  /\ jobCache[j] \in Nat /\ Len(versions[j]) \in Nat
           /\ jobCache[j] < Len(versions[j]) \/ JobSeen(j) = JobNow(j)
BY LogFacts DEF IInv, TypeOK, CachesBehind, JobSeen, JobNow, Latest

\* A new version of a job is an event of it, and concerns no other job.
LEMMA WriteAttends ==
    ASSUME IInv, FInv, NEW j \in Job, NEW s \in Status, s.phase # "absent", Write(j, s),
           UNCHANGED <<podLog, jobCache, podCache>>, queue \subseteq queue',
           \A i \in Job \ {j} : worker.job = i => worker'.job = i
    PROVE  NoJobForgotten' /\ jobCache'[j] < Len(versions'[j])
<1>1. /\ Len(versions'[j]) = Len(versions[j]) + 1
      /\ JobNow(j)' = s
      /\ \A i \in Job \ {j} : versions'[i] = versions[i]
  BY WriteFacts DEF IInv, TypeOK
<1>2. jobCache'[j] < Len(versions'[j])
  BY <1>1, SeenIsNow DEF IInv, CachesBehind
<1>3. \A i \in Job : OnlyOneOfItsType(i)' => OnlyOneOfItsType(i)
  BY <1>1 DEF OnlyOneOfItsType, SameType, Phase, JobNow
<1>4. ASSUME NEW i \in Job \ {j}
      PROVE  /\ Phase(i)' = Phase(i)
             /\ Attended(i) => Attended(i)'
             /\ Awaited(i) => Awaited(i)'
  BY <1>1 DEF Phase, JobNow, Attended, Awaited, PodNow
<1>5. Attended(j)'
  BY <1>2 DEF Attended
<1> QED BY <1>2, <1>3, <1>4, <1>5 DEF FInv, NoJobForgotten

\* Where no job changes, attention must not be lost.
LEMMA AttentionKept ==
    ASSUME FInv, UNCHANGED versions,
           \A i \in Job : Attended(i) /\ Phase(i) \in {"New", "Running"} =>
               \/ Attended(i)'
               \/ Phase(i) = "Running" /\ (OnlyOneOfItsType(i) => Awaited(i)'),
           \A i \in Job : Awaited(i) => Awaited(i)' \/ Attended(i)'
    PROVE  NoJobForgotten'
<1>1. \A i \in Job : /\ Phase(i)' = Phase(i)
                     /\ OnlyOneOfItsType(i)' <=> OnlyOneOfItsType(i)
  BY DEF Phase, JobNow, OnlyOneOfItsType, SameType
<1> QED BY <1>1 DEF FInv, NoJobForgotten

\* The owners leave the queue alone, and what they write is an event.
LEMMA OwnerRemembers ==
    ASSUME IInv, FInv, NEW j \in Job, Owner(j)
    PROVE  FInv'
<1>1. UNCHANGED <<podLog, caches, queue, worker>>
  BY DEF Owner, CreateJob, CreateTemplate, SetDeleteAfter, DeleteJob, DeleteTemplate, budget
<1>2. JobNow(j) \in Status
  BY LogFacts
<1>3. ASSUME NEW s \in Status, s.phase # "absent", Write(j, s)
      PROVE  FInv'
  <2>1. NoJobForgotten' /\ jobCache'[j] < Len(versions'[j])
    BY <1>1, <1>3, WriteAttends DEF caches
  <2>2. \A i \in Job \ {j} : versions'[i] = versions[i]
    BY <1>3, WriteFacts DEF IInv, TypeOK
  <2>3. worker.pc = "pods" => worker.job \in Job
    BY DEF IInv, WorkerCreates
  <2>4. PolledIsQueued'
    BY <1>1, <2>1, <2>2, <2>3 DEF FInv, PolledIsQueued, Phase, JobNow, caches
  <2> QED BY <2>1, <2>4 DEF FInv
<1>4. CASE CreateJob(j)
  BY <1>3, <1>4, BlankType DEF CreateJob, Phases
<1>5. CASE SetDeleteAfter(j)
  <2>1. [JobNow(j) EXCEPT !.deleteAfter = TRUE] \in Status
    BY <1>2 DEF Status
  <2>2. [JobNow(j) EXCEPT !.deleteAfter = TRUE].phase = Phase(j)
    BY <1>2 DEF Status, Phase
  <2> QED BY <1>3, <1>5, <2>1, <2>2 DEF SetDeleteAfter, Terminal
<1>6. CASE DeleteJob(j)
  BY <1>3, <1>6, BlankType DEF DeleteJob, Phases
<1>7. CASE CreateTemplate(j) \/ DeleteTemplate(j)
  <2>1. UNCHANGED versions
    BY <1>7 DEF CreateTemplate, DeleteTemplate
  <2> QED BY <1>1, <2>1 DEF FInv, PolledIsQueued, NoJobForgotten, Attended, Awaited, Phase, JobNow,
                            PodNow, OnlyOneOfItsType, SameType, caches
<1> QED BY <1>4, <1>5, <1>6, <1>7 DEF Owner

\* What a pod does is an event of the job that owns it.
LEMMA ClusterRemembers ==
    ASSUME IInv, FInv, NEW p \in Pod, NEW ph \in PodPhases, UNCHANGED <<versions, caches, queue>>,
           podLog' = [podLog EXCEPT ![p] = Append(@, ph)],
           worker'.job = worker.job, worker'.pc = worker.pc
    PROVE  FInv'
<1>1. /\ Len(podLog'[p]) = Len(podLog[p]) + 1
      /\ \A q \in Pod \ {p} : podLog'[q] = podLog[q]
  BY LogFacts, PodMovesFacts
<1>2. podCache'[p] < Len(podLog'[p])
  BY <1>1, LogFacts DEF IInv, TypeOK, CachesBehind, caches
<1>3. \A i \in Job : Attended(i) => Attended(i)'
  BY DEF Attended, caches
<1>4. ASSUME NEW i \in Job, Awaited(i)
      PROVE  Awaited(i)'
  BY <1>1, <1>2, <1>4 DEF Awaited, PodNow, caches
<1>5. NoJobForgotten'
  BY <1>3, <1>4, AttentionKept
<1>6. PolledIsQueued'
  BY DEF FInv, PolledIsQueued, Phase, JobNow, caches
<1> QED BY <1>5, <1>6 DEF FInv

\* A watch event that is taken queues the job, unless a later one of the job is
\* on its way or the job is over.
LEMMA SyncRemembers ==
    ASSUME IInv, FInv,
           \/ \E j \in Job : SyncJob(j) \/ SyncTemplate(j) \/ Resync(j)
           \/ \E p \in Pod : SyncPod(p)
    PROVE  FInv'
<1>1. CASE \E j \in Job : SyncTemplate(j) \/ Resync(j)
  <2>1. /\ UNCHANGED <<versions, podLog, jobCache, podCache, worker>>
        /\ queue \subseteq queue'
    BY <1>1 DEF SyncTemplate, Resync, objects, caches
  <2>2. \A i \in Job : (Attended(i) => Attended(i)') /\ (Awaited(i) => Awaited(i)')
    BY <2>1 DEF Attended, Awaited, PodNow
  <2>3. NoJobForgotten'
    BY <2>1, <2>2, AttentionKept
  <2> QED BY <2>1, <2>3 DEF FInv, PolledIsQueued, Phase, JobNow
<1>2. ASSUME NEW j \in Job, SyncJob(j)
      PROVE  FInv'
  <2>1. /\ UNCHANGED <<versions, podLog, podCache, worker>>
        /\ queue \subseteq queue'
        /\ jobCache' = [jobCache EXCEPT ![j] = @ + 1]
    BY <1>2 DEF SyncJob, objects
  <2>2. Phase(j) \in {"New", "Running"} => j \in queue' \/ jobCache'[j] < Len(versions'[j])
    <3>1. jobCache'[j] = jobCache[j] + 1
      BY <2>1 DEF IInv, TypeOK
    <3>2. CASE jobCache[j] + 1 = Len(versions[j])
      <4>1. versions[j][jobCache[j] + 1] = JobNow(j)
        BY <3>2 DEF JobNow, Latest
      <4> QED BY <1>2, <4>1 DEF SyncJob, Enqueues, Phase, Terminal
    <3> QED BY <1>2, <2>1, <3>1, <3>2, SeenIsNow DEF SyncJob
  <2>3. ASSUME NEW i \in Job
        PROVE  /\ Attended(i) /\ Phase(i) \in {"New", "Running"} => Attended(i)'
               /\ Awaited(i) => Awaited(i)'
    BY <2>1, <2>2 DEF IInv, TypeOK, Attended, Awaited, PodNow
  <2>4. NoJobForgotten'
    BY <2>1, <2>3, AttentionKept
  <2>5. PolledIsQueued'
    BY <2>1, <2>2 DEF IInv, TypeOK, FInv, PolledIsQueued, Phase, JobNow
  <2> QED BY <2>4, <2>5 DEF FInv
<1>3. ASSUME NEW p \in Pod, SyncPod(p)
      PROVE  FInv'
  <2>1. /\ UNCHANGED <<versions, podLog, jobCache, worker>>
        /\ queue' = queue \cup {p[1]}
        /\ \A q \in Pod \ {p} : podCache'[q] = podCache[q]
    BY <1>3 DEF SyncPod, objects, IInv, TypeOK
  <2>2. ASSUME NEW i \in Job
        PROVE  /\ Attended(i) => Attended(i)'
               /\ Awaited(i) => Awaited(i)' \/ Attended(i)'
    BY <2>1 DEF Attended, Awaited, PodNow
  <2>3. NoJobForgotten'
    BY <2>1, <2>2, AttentionKept
  <2> QED BY <2>1, <2>3 DEF FInv, PolledIsQueued, Phase, JobNow
<1> QED BY <1>1, <1>2, <1>3

\* A pod that keeps a lone job waiting is one of its own, and will be heard of.
LEMMA IncompleteIsAwaited ==
    ASSUME IInv, CInv, NEW j \in Job, OnlyOneOfItsType(j), MayBeIncomplete(Listed(j))
    PROVE  Awaited(j)
<1>1. PICK p \in Listed(j) : PodSeen(p) \in {"Pending", "Running"}
  BY DEF MayBeIncomplete, ActivePods, Active
<1>2. p \in Pod /\ SameType(p[1], j)
  BY <1>1 DEF Listed
<1>3. podCache[p] \in 1 .. Len(podLog[p]) /\ Len(podLog[p]) \in Nat
  BY <1>2, LogFacts DEF IInv, TypeOK, CachesBehind
<1>4. Born(p)
  BY <1>1, <1>2, <1>3 DEF CInv, LogsGrow, PodSeen
<1>5. p[1] = j
  <2>1. p[1] \in Job /\ Phase(p[1]) # "absent"
    BY <1>2, <1>4 DEF Pod, IInv, PodsOnlyOfStartedJobs
  <2> QED BY <1>2, <2>1 DEF OnlyOneOfItsType
<1>6. podCache[p] < Len(podLog[p]) \/ PodNow(p) = PodSeen(p)
  BY <1>3 DEF PodNow, PodSeen, Latest
<1> QED BY <1>1, <1>2, <1>5, <1>6 DEF Awaited

\* The worker drops a job only when it is over, or a pod of it will call back.
LEMMA ReconcileRemembers ==
    ASSUME IInv, CInv, FInv, NEW j \in Job, Reconcile(j)
    PROVE  FInv'
<1>1. /\ UNCHANGED <<versions, podLog, jobCache, podCache>> /\ worker = Idle
      /\ queue \ {j} \subseteq queue'
  BY DEF Reconcile, ReconcileNothing, ReconcileNew, ReconcileRunning, Takes, Done, Retry,
         Decides, objects, caches
<1>2. \A i \in Job : Awaited(i) => Awaited(i)'
  BY <1>1 DEF Awaited, PodNow
<1>3. ASSUME NEW i \in Job \ {j}, Attended(i)
      PROVE  Attended(i)'
  BY <1>1, <1>3, ImageJobAssumption DEF Attended, Idle
<1>4. ASSUME Phase(j) \in {"New", "Running"}
      PROVE  \/ Attended(j)'
             \/ Phase(j) = "Running" /\ (OnlyOneOfItsType(j) => Awaited(j)')
  <2>1. CASE jobCache[j] < Len(versions[j])
    BY <1>1, <2>1 DEF Attended
  <2>2. CASE j \in queue' \/ worker'.job = j
    BY <2>2 DEF Attended
  <2>3. CASE JobSeen(j) = JobNow(j) /\ j \notin queue' /\ worker'.job # j
    <3>1. Phase(j) = "Running" /\ MayBeIncomplete(Listed(j))
      BY <1>4, <2>3 DEF Reconcile, ReconcileNothing, ReconcileNew, ReconcileRunning, Takes,
                        Done, Retry, Decides, Idle, Terminal, Phase
    <3> QED BY <1>2, <3>1, IncompleteIsAwaited
  <2> QED BY <2>1, <2>2, <2>3, SeenIsNow
<1>5. NoJobForgotten'
  BY <1>1, <1>2, <1>3, <1>4, AttentionKept
<1>6. worker'.pc # "pods"
  <2>1. worker' = Idle \/ \E s : Decides(j, s)
    BY DEF Reconcile, ReconcileNothing, ReconcileNew, ReconcileRunning, Done, Retry
  <2>2. ASSUME NEW s, Decides(j, s)
        PROVE  worker'.pc = "update"
    BY <2>2 DEF Decides, Idle
  <2>3. Idle.pc = "idle"
    BY DEF Idle
  <2> QED BY <2>1, <2>2, <2>3
<1> QED BY <1>5, <1>6 DEF FInv, PolledIsQueued

\* A call that failed or came too late puts the job back; one that did not is
\* an event, and the polls end with the job in the queue.
LEMMA ProceedRemembers ==
    ASSUME IInv, FInv, NEW j \in Job, Proceed(j)
    PROVE  FInv'
<1>1. /\ UNCHANGED <<podLog, jobCache, podCache>> /\ worker.job = j
      /\ queue \subseteq queue'
  BY DEF Proceed, UpdateStatus, AfterUpdate, UpdateConflicts, UpdateFails, PodsPolled, Retry,
         objects, caches
<1>2. worker.pc = "update" => worker.outcome \in Status /\ worker.outcome.phase # "absent"
  <2>1. worker \in WorkerType
    BY DEF IInv, TypeOK, WorkerType
  <2>2. worker.outcome \in Status
    BY <2>1 DEF WorkerType
  <2> QED BY <2>2 DEF IInv, WorkerUpdates, Terminal
<1>3. CASE UpdateStatus(j)
  <2>1. NoJobForgotten' /\ jobCache'[j] < Len(versions'[j])
    BY <1>1, <1>2, <1>3, WriteAttends DEF UpdateStatus
  <2>2. worker'.pc = "pods" => worker'.job = j
    <3>1. worker' = Idle \/ worker' = [Idle EXCEPT !.pc = "pods", !.job = j, !.todo = Selected]
      BY <1>3 DEF UpdateStatus, AfterUpdate
    <3>2. [Idle EXCEPT !.pc = "pods", !.job = j, !.todo = Selected].job = j /\ Idle.pc = "idle"
      BY DEF Idle
    <3> QED BY <3>1, <3>2
  <2> QED BY <2>1, <2>2 DEF FInv, PolledIsQueued
<1>4. CASE UpdateConflicts(j) \/ UpdateFails(j)
  <2>1. worker' = Idle /\ j \in queue'
    BY <1>4 DEF UpdateConflicts, UpdateFails, Retry
  <2>2. CASE UNCHANGED versions
    <3>1. \A i \in Job : Attended(i) => Attended(i)'
      BY <1>1, <2>1, <2>2 DEF Attended
    <3>2. \A i \in Job : Awaited(i) => Awaited(i)'
      BY <1>1 DEF Awaited, PodNow
    <3> QED BY <2>1, <2>2, <3>1, <3>2, AttentionKept DEF FInv, PolledIsQueued, Idle
  <2>3. CASE Write(j, worker.outcome)
    <3>1. worker.pc = "update"
      BY <1>4 DEF UpdateConflicts, UpdateFails
    <3>2. NoJobForgotten'
      BY <1>1, <1>2, <2>3, <3>1, WriteAttends
    <3> QED BY <2>1, <3>2 DEF FInv, PolledIsQueued, Idle
  <2> QED BY <1>4, <2>2, <2>3 DEF UpdateConflicts, UpdateFails, objects
<1>5. CASE PodsPolled(j)
  <2>1. UNCHANGED <<versions, queue>> /\ worker' = Idle /\ worker.pc = "pods"
    BY <1>5 DEF PodsPolled, objects
  <2>2. Phase(j) # "New"
    BY <1>1, <2>1 DEF IInv, WorkerCreates
  <2>3. Phase(j) = "Running" => Attended(j)'
    BY <1>1, <2>1 DEF FInv, PolledIsQueued, Attended
  <2>4. \A i \in Job \ {j} : Attended(i) => Attended(i)'
    BY <1>1, <2>1 DEF Attended
  <2>5. \A i \in Job : Awaited(i) => Awaited(i)'
    BY <1>1 DEF Awaited, PodNow
  <2>6. NoJobForgotten'
    BY <2>1, <2>2, <2>3, <2>4, <2>5, AttentionKept
  <2> QED BY <2>1, <2>6 DEF FInv, PolledIsQueued, Idle
<1> QED BY <1>3, <1>4, <1>5 DEF Proceed

\* The worker that creates pods keeps its job, or puts it back.
LEMMA ProceedPodRemembers ==
    ASSUME IInv, FInv, NEW p \in Pod, ProceedPod(p)
    PROVE  FInv'
<1>1. worker \in WorkerType
  BY DEF IInv, TypeOK, WorkerType
<1>2. CASE CreatePod(p)
  <2>1. worker'.job = worker.job /\ worker'.pc = worker.pc
    BY <1>1, <1>2 DEF CreatePod, WorkerType
  <2>2. podLog' = [podLog EXCEPT ![p] = Append(@, "Pending")] /\ UNCHANGED <<versions, caches, queue>>
    BY <1>2 DEF CreatePod, Creates
  <2> QED BY <2>1, <2>2, ClusterRemembers DEF PodPhases, Active
<1>3. CASE CreatePodFails(p)
  <2>1. /\ UNCHANGED <<versions, caches>> /\ worker' = Idle /\ worker.job = p[1]
        /\ queue' = queue \cup {p[1]}
    BY <1>3 DEF CreatePodFails, Retry
  <2>2. \A i \in Job : Attended(i) => Attended(i)'
    BY <2>1 DEF Attended, caches
  <2>3. \A i \in Job : i # p[1] => (Awaited(i) => Awaited(i)')
    BY <1>3, <2>1 DEF CreatePodFails, Creates, IInv, TypeOK, Awaited, PodNow, caches
  <2>4. \A i \in Job : i = p[1] => Attended(i)'
    BY <2>1 DEF Attended
  <2>5. NoJobForgotten'
    BY <2>1, <2>2, <2>3, <2>4, AttentionKept
  <2> QED BY <2>1, <2>5 DEF FInv, PolledIsQueued, Idle
<1>4. CASE StopPolling(p)
  <2>1. /\ UNCHANGED <<versions, podLog, jobCache, podCache, queue>>
        /\ worker'.job = worker.job /\ worker'.pc = worker.pc
    BY <1>1, <1>4 DEF StopPolling, WorkerType, objects, caches
  <2>2. \A i \in Job : (Attended(i) => Attended(i)') /\ (Awaited(i) => Awaited(i)')
    BY <2>1 DEF Attended, Awaited, PodNow
  <2>3. NoJobForgotten'
    BY <2>1, <2>2, AttentionKept
  <2> QED BY <2>1, <2>3 DEF FInv, PolledIsQueued, Phase, JobNow
<1> QED BY <1>2, <1>3, <1>4 DEF ProceedPod

\* A manager that starts again queues every job that exists.
LEMMA RestartRemembers ==
    ASSUME Restart
    PROVE  FInv'
<1>1. UNCHANGED versions /\ worker' = Idle
      /\ {j \in Job : Phase(j) \notin {"absent", "gone"}} \subseteq queue'
  BY DEF Restart
<1>2. \A j \in Job : Phase(j)' \in {"New", "Running"} => Attended(j)'
  BY <1>1 DEF Attended, Phase, JobNow
<1> QED BY <1>1, <1>2 DEF FInv, PolledIsQueued, NoJobForgotten, Idle

\* Each step remembers the jobs.
LEMMA NextFInv == IInv /\ CInv /\ FInv /\ [Next]_vars => FInv'
<1> SUFFICES ASSUME IInv, CInv, FInv, [Next]_vars PROVE FInv'
  OBVIOUS
<1>1. ASSUME NEW p \in Pod, Cluster(p)
      PROVE  FInv'
  <2>1. PICK ph \in PodPhases : Moves(p, ph)
    BY <1>1, ClusterEffect
  <2>2. UNCHANGED <<caches, queue>>
    BY <1>1 DEF Cluster, Kubelet, PodRuns, ContainerFails, PodSucceeds, PodFails, PodLost,
                CollectPod
  <2> QED BY <2>1, <2>2, ClusterRemembers DEF Moves, PodMoves
<1>2. CASE UNCHANGED vars
  BY <1>2 DEF vars, objects, caches, FInv, PolledIsQueued, NoJobForgotten, Attended, Awaited,
              Phase, JobNow, PodNow, OnlyOneOfItsType, SameType
<1> QED BY <1>1, <1>2, OwnerRemembers, SyncRemembers, ReconcileRemembers, ProceedRemembers,
           ProceedPodRemembers, RestartRemembers DEF Next

\* No wake-up is lost, for any number of jobs, nodes, faults and restarts: a job
\* that is new, or runs as the only one of its type, is queued or in the worker's
\* hands, an event of it is on its way, or a pod of it is at work.
THEOREM JobsAreRemembered == Spec => []NoJobForgotten
<1>1. Init => FInv
  <2> SUFFICES ASSUME Init PROVE FInv
    OBVIOUS
  <2>1. \A j \in Job : Phase(j) = "absent"
    BY DEF Init, Phase, JobNow, Latest, Blank
  <2> QED BY <2>1 DEF Init, FInv, PolledIsQueued, NoJobForgotten, Idle
<1>2. IInv /\ CInv /\ FInv /\ [Next]_vars => FInv'
  BY NextFInv
<1>3. FInv => NoJobForgotten
  BY DEF FInv
<1> QED BY <1>1, <1>2, <1>3, InductiveC, PTL DEF Spec

-----------------------------------------------------------------------------
(* A verdict awaits the pods.  Until a call fails, every pod that exists is *)
(* in the cache, or the worker still polls for it; so a worker that reads   *)
(* the pods of a running job knows of all of them.                          *)

Over == {"Succeeded", "Failed", "gone"}

\* A pod that was seen stays, and one that is over does not start again.
PodsGoOn ==
    \A p \in Pod : \A i \in 1 .. Len(podLog[p]), k \in 1 .. Len(podLog[p]) : i < k =>
        /\ podLog[p][i] # "absent" => podLog[p][k] # "absent"
        /\ podLog[p][i] \in Over => podLog[p][k] \in Over

PodsShown ==
    faults = 0 => \A p \in Pod : Born(p) =>
        PodSeen(p) # "absent" \/ (worker.pc = "pods" /\ p \in worker.waiting)

NoneActive(j) == \A p \in Pod : p[1] = j => PodNow(p) \notin Active

Excused(j) == \E q \in Pod : /\ SameType(q[1], j)
                             /\ \E i \in 1 .. Len(podLog[q]) : podLog[q][i] = "Failing"

\* The worker that is about to give a verdict has read that no pod is active.
VerdictWaits ==
    /\ faults = 0 /\ worker.pc = "update"
    /\ worker.outcome.phase \in Terminal /\ ~worker.outcome.deleteAfter
    => NoneActive(worker.job) \/ Excused(worker.job)

WInv == PodsGoOn /\ PodsShown /\ VerdictWaits

\* Where a cache stands.
LEMMA SeenFacts ==
    ASSUME IInv, PodsGoOn, NEW p \in Pod
    PROVE  /\ podCache[p] \in 1 .. Len(podLog[p])
           /\ PodNow(p) \in PodPhases /\ PodSeen(p) \in PodPhases
           /\ PodSeen(p) # "absent" => Born(p)
           /\ PodSeen(p) \in Over => PodNow(p) \in Over
<1>1. /\ Len(podLog[p]) \in Nat \ {0} /\ podLog[p] \in Seq(PodPhases)
      /\ podCache[p] \in 1 .. Len(podLog[p])
  BY LogFacts DEF IInv, TypeOK, CachesBehind
<1>2. PodNow(p) \in PodPhases /\ PodSeen(p) \in PodPhases
  BY <1>1 DEF PodNow, PodSeen, Latest
<1>3. CASE podCache[p] = Len(podLog[p])
  BY <1>1, <1>2, <1>3 DEF PodNow, PodSeen, Latest, Born
<1>4. CASE podCache[p] < Len(podLog[p])
  BY <1>1, <1>2, <1>4 DEF PodNow, PodSeen, Latest, Born, PodsGoOn
<1> QED BY <1>1, <1>2, <1>3, <1>4

\* A pod that exists goes on, or one that does not is created.
LEMMA LogGoesOn ==
    ASSUME IInv, PodsGoOn, NEW p \in Pod, NEW ph \in PodPhases \ {"absent"},
           podLog' = [podLog EXCEPT ![p] = Append(@, ph)],
           PodNow(p) \in Over => ph \in Over
    PROVE  PodsGoOn'
<1>1. /\ Len(podLog'[p]) = Len(podLog[p]) + 1
      /\ PodNow(p)' = ph
      /\ \A i \in 1 .. Len(podLog[p]) : podLog'[p][i] = podLog[p][i]
      /\ \A q \in Pod \ {p} : podLog'[q] = podLog[q]
  BY LogFacts, PodMovesFacts
<1>2. Len(podLog[p]) \in Nat \ {0} /\ podLog'[p][Len(podLog[p]) + 1] = ph
  BY <1>1, LogFacts DEF PodNow, Latest
<1>3. ASSUME NEW i \in 1 .. Len(podLog[p]), podLog[p][i] \in Over
      PROVE  PodNow(p) \in Over
  BY <1>2, <1>3 DEF PodNow, Latest, PodsGoOn
<1>4. ASSUME NEW i \in 1 .. Len(podLog'[p]), NEW k \in 1 .. Len(podLog'[p]), i < k
      PROVE  /\ podLog'[p][i] # "absent" => podLog'[p][k] # "absent"
             /\ podLog'[p][i] \in Over => podLog'[p][k] \in Over
  <2>1. i \in 1 .. Len(podLog[p]) /\ podLog'[p][i] = podLog[p][i]
    BY <1>1, <1>2, <1>4
  <2>2. CASE k = Len(podLog[p]) + 1
    BY <2>1, <2>2, <1>2, <1>3
  <2>3. CASE k \in 1 .. Len(podLog[p])
    BY <2>1, <2>3, <1>1, <1>4 DEF PodsGoOn
  <2> QED BY <2>2, <2>3, <1>1, <1>2
<1>5. ASSUME NEW q \in Pod \ {p}, NEW i \in 1 .. Len(podLog'[q]),
             NEW k \in 1 .. Len(podLog'[q]), i < k
      PROVE  /\ podLog'[q][i] # "absent" => podLog'[q][k] # "absent"
             /\ podLog'[q][i] \in Over => podLog'[q][k] \in Over
  BY <1>1, <1>5 DEF PodsGoOn
<1> QED BY <1>4, <1>5 DEF PodsGoOn

\* What excuses a verdict stays in the log.
LEMMA ExcuseStays ==
    ASSUME IInv, NEW p \in Pod, NEW ph \in PodPhases,
           podLog' = [podLog EXCEPT ![p] = Append(@, ph)],
           NEW j \in Job, Excused(j)
    PROVE  Excused(j)'
<1>1. /\ Len(podLog'[p]) = Len(podLog[p]) + 1
      /\ \A i \in 1 .. Len(podLog[p]) : podLog'[p][i] = podLog[p][i]
      /\ \A q \in Pod \ {p} : podLog'[q] = podLog[q]
  BY LogFacts, PodMovesFacts
<1>2. PICK q \in Pod : /\ SameType(q[1], j)
                       /\ \E i \in 1 .. Len(podLog[q]) : podLog[q][i] = "Failing"
  BY DEF Excused
<1>3. PICK i \in 1 .. Len(podLog[q]) : podLog[q][i] = "Failing"
  BY <1>2
<1>4. Len(podLog[q]) \in Nat
  BY LogFacts
<1>5. i \in 1 .. Len(podLog'[q]) /\ podLog'[q][i] = "Failing"
  BY <1>1, <1>3, <1>4
<1> QED BY <1>2, <1>5 DEF Excused, SameType

\* A pod that is over stays over, so a verdict's excuse is not lost.
LEMMA ClusterWaits ==
    ASSUME IInv, WInv, NEW p \in Pod, Cluster(p)
    PROVE  WInv'
<1>1. PICK ph \in PodPhases \ {"absent"} :
        /\ podLog' = [podLog EXCEPT ![p] = Append(@, ph)]
        /\ PodNow(p) \in Over => ph \in Over
        /\ Born(p) /\ UNCHANGED <<podCache, worker>>
        /\ faults' = 0 => faults = 0
  <2>1. faults \in Nat
    BY ImageJobAssumption DEF IInv, TypeOK
  <2>2. CASE Kubelet(p)
    <3>1. /\ PodNow(p) \in Active
          /\ UNCHANGED <<podCache, worker, faults>>
      BY <2>2 DEF Kubelet, PodRuns, ContainerFails, PodSucceeds, PodFails,
                  Active, caches, budget
    <3>2. PICK ph \in {"Running", "Failing", "Succeeded", "Failed"} : PodMoves(p, ph)
      BY <2>2 DEF Kubelet, PodRuns, ContainerFails, PodSucceeds, PodFails
    <3>3. ph \in PodPhases \ {"absent"} /\ Born(p) /\ PodNow(p) \notin Over
      BY <3>1 DEF PodPhases, Active, Born, Over
    <3> QED BY <3>1, <3>2, <3>3 DEF PodMoves
  <2>3. CASE PodLost(p) \/ CollectPod(p)
    <3>1. PodMoves(p, "gone") /\ Born(p) /\ UNCHANGED <<podCache, worker>>
      BY <2>3 DEF PodLost, CollectPod, Born, caches
    <3>2. faults' = 0 => faults = 0
      BY <2>1, <2>3 DEF PodLost, CollectPod, budget
    <3>3. "gone" \in PodPhases \ {"absent"} /\ "gone" \in Over
      BY DEF PodPhases, Over
    <3> QED BY <3>1, <3>2, <3>3 DEF PodMoves
  <2> QED BY <2>2, <2>3 DEF Cluster
<1>2. PodsGoOn'
  BY <1>1, LogGoesOn DEF WInv
<1>3. /\ Len(podLog'[p]) = Len(podLog[p]) + 1
      /\ PodNow(p)' = ph
      /\ \A i \in 1 .. Len(podLog[p]) : podLog'[p][i] = podLog[p][i]
      /\ \A q \in Pod \ {p} : podLog'[q] = podLog[q]
  BY <1>1, LogFacts, PodMovesFacts
<1>4. \A q \in Pod : Born(q)' => Born(q)
  BY <1>1, <1>3 DEF Born, PodNow, Latest
<1>5. \A q \in Pod : PodSeen(q)' = PodSeen(q)
  BY <1>1, <1>3, SeenFacts DEF PodSeen, WInv
<1>6. PodsShown'
  BY <1>1, <1>4, <1>5 DEF PodsShown, WInv
<1>7. ASSUME NEW j \in Job, NoneActive(j) PROVE NoneActive(j)'
  <2>1. p[1] = j => PodNow(p) \in Over
    BY <1>1, <1>7, SeenFacts DEF NoneActive, Born, PodPhases, Over, WInv
  <2>2. p[1] = j => PodNow(p)' \notin Active
    BY <2>1, <1>1, <1>3 DEF Over, Active
  <2>3. \A q \in Pod \ {p} : PodNow(q)' = PodNow(q)
    BY <1>3 DEF PodNow, Latest
  <2> QED BY <2>2, <2>3, <1>7 DEF NoneActive
<1>8. VerdictWaits'
  BY <1>1, <1>7, ExcuseStays DEF VerdictWaits, WInv, IInv, WorkerUpdates
<1> QED BY <1>2, <1>6, <1>8 DEF WInv

\* A cache that catches up shows a pod that was born.
LEMMA SyncPodWaits ==
    ASSUME IInv, WInv, NEW p \in Pod, SyncPod(p)
    PROVE  WInv'
<1>1. UNCHANGED <<podLog, worker, faults>> /\ podCache' = [podCache EXCEPT ![p] = @ + 1]
      /\ podCache[p] < Len(podLog[p])
  BY DEF SyncPod, objects, budget
<1>2. \A q \in Pod \ {p} : podCache'[q] = podCache[q]
  BY <1>1 DEF IInv, TypeOK
<1>3. podCache'[p] = podCache[p] + 1
  BY <1>1 DEF IInv, TypeOK
<1>4. PodSeen(p) # "absent" => PodSeen(p)' # "absent"
  BY <1>1, <1>3, SeenFacts, LogFacts DEF PodSeen, WInv, PodsGoOn
<1>5. \A q \in Pod \ {p} : PodSeen(q)' = PodSeen(q)
  BY <1>1, <1>2 DEF PodSeen
<1>6. PodsShown'
  BY <1>1, <1>4, <1>5 DEF WInv, PodsShown, Born, PodNow, Latest
<1>7. PodsGoOn' /\ VerdictWaits'
  BY <1>1 DEF WInv, PodsGoOn, VerdictWaits, NoneActive, Excused, PodNow, Latest
<1> QED BY <1>6, <1>7 DEF WInv

\* The worker read the pods, and either none was active or one was failing.
LEMMA TallyWaits ==
    ASSUME IInv, WInv, NEW j \in Job, faults = 0, worker = Idle,
           MayBeComplete(Listed(j))
    PROVE  NoneActive(j) \/ Excused(j)
<1>1. CASE \E p \in ActivePods(Listed(j)) : PodSeen(p) = "Failing"
  <2>1. PICK p \in Pod : SameType(p[1], j) /\ PodSeen(p) = "Failing"
    BY <1>1 DEF ActivePods, Listed
  <2> QED BY <2>1, SeenFacts DEF Excused, PodSeen, WInv
<1>2. CASE ActivePods(Listed(j)) = {}
  <2> SUFFICES ASSUME NEW p \in Pod, p[1] = j, PodNow(p) \in Active
               PROVE  FALSE
    BY DEF NoneActive
  <2>1. Born(p) /\ worker.pc = "idle"
    BY DEF Born, Active, Idle
  <2>2. PodSeen(p) # "absent"
    BY <2>1 DEF WInv, PodsShown
  <2>3. SameType(p[1], j)
    BY DEF SameType
  <2>4. PodSeen(p) \notin Active
    BY <1>2, <2>2, <2>3 DEF ActivePods, Listed, Active
  <2>5. PodSeen(p) \in Over
    BY <2>2, <2>4, SeenFacts DEF PodPhases, Over, WInv
  <2>6. PodNow(p) \in Over
    BY <2>5, SeenFacts DEF WInv
  <2> QED BY <2>6 DEF Over, Active
<1> QED BY <1>1, <1>2 DEF MayBeComplete

\* A reconcile decides only when its cache shows no active pod.
LEMMA ReconcileWaits ==
    ASSUME IInv, WInv, NEW j \in Job, Reconcile(j)
    PROVE  WInv'
<1>1. UNCHANGED <<podLog, podCache, faults>> /\ worker = Idle
  BY DEF Reconcile, ReconcileNothing, ReconcileNew, ReconcileRunning, Takes,
         objects, caches, budget
<1>2. PodsGoOn'
  BY <1>1 DEF WInv, PodsGoOn
<1>3. PodsShown'
  BY <1>1 DEF WInv, PodsShown, Born, PodNow, PodSeen, Latest, Idle
<1>4. \A i \in Job : /\ NoneActive(i) => NoneActive(i)'
                     /\ Excused(i) => Excused(i)'
  BY <1>1 DEF NoneActive, Excused, PodNow, Latest
<1>5. \/ worker' = Idle
      \/ Decides(j, Started)
      \/ Decides(j, Missing)
      \/ /\ Decides(j, Tally(JobSeen(j), Listed(j)))
         /\ MayBeComplete(Listed(j))
  BY DEF Reconcile, ReconcileNothing, ReconcileNew, ReconcileRunning, Done, Retry, Missing
<1>6. ASSUME worker' = Idle PROVE VerdictWaits'
  BY <1>6 DEF VerdictWaits, Idle
<1>7. ASSUME Decides(j, Started) PROVE VerdictWaits'
  <2>1. worker'.outcome = Started /\ Started.phase \notin Terminal
    BY <1>7, StartedType DEF Decides, Idle, Terminal
  <2> QED BY <2>1 DEF VerdictWaits
<1>8. ASSUME Decides(j, Missing) PROVE VerdictWaits'
  <2>1. worker'.outcome = Missing /\ Missing.deleteAfter
    BY <1>8 DEF Missing, Blank, Decides, Idle
  <2> QED BY <2>1 DEF VerdictWaits
<1>9. ASSUME Decides(j, Tally(JobSeen(j), Listed(j))), MayBeComplete(Listed(j))
      PROVE  VerdictWaits'
  <2>1. worker'.job = j
    BY <1>9 DEF Decides, Idle
  <2>2. faults = 0 => NoneActive(j) \/ Excused(j)
    BY <1>1, <1>9, TallyWaits
  <2> QED BY <2>1, <2>2, <1>1, <1>4 DEF VerdictWaits
<1> QED BY <1>2, <1>3, <1>5, <1>6, <1>7, <1>8, <1>9 DEF WInv

\* What is written is what was decided.
LEMMA ProceedWaits ==
    ASSUME IInv, WInv, NEW j \in Job, Proceed(j)
    PROVE  WInv'
<1>1. UNCHANGED <<podLog, podCache>>
  BY DEF Proceed, UpdateStatus, UpdateConflicts, UpdateFails, PodsPolled, objects, caches
<1>2. PodsGoOn'
  BY <1>1 DEF WInv, PodsGoOn
<1>3. worker'.pc # "update"
  <2>1. worker' = Idle \/ worker' = [Idle EXCEPT !.pc = "pods", !.job = j, !.todo = Selected]
    BY DEF Proceed, UpdateStatus, UpdateConflicts, UpdateFails, PodsPolled, AfterUpdate,
           Retry
  <2>2. CASE worker' = Idle
    BY <2>2 DEF Idle
  <2>3. CASE worker' = [Idle EXCEPT !.pc = "pods", !.job = j, !.todo = Selected]
    <3>1. worker'.pc = "pods"
      BY <2>3 DEF Idle
    <3> QED BY <3>1
  <2> QED BY <2>1, <2>2, <2>3
<1>4. VerdictWaits'
  BY <1>3 DEF VerdictWaits
<1>5. /\ faults' = 0 => faults = 0
      /\ faults' = 0 => worker.pc = "update" \/ (worker.pc = "pods" /\ worker.waiting = {})
  BY DEF Proceed, UpdateStatus, UpdateConflicts, UpdateFails, PodsPolled, budget,
         IInv, TypeOK
<1>6. PodsShown'
  BY <1>1, <1>5 DEF WInv, PodsShown, Born, PodNow, PodSeen, Latest
<1> QED BY <1>2, <1>4, <1>6 DEF WInv

\* The worker that creates pods has no verdict in hand.
LEMMA ProceedPodWaits ==
    ASSUME IInv, WInv, NEW p \in Pod, ProceedPod(p)
    PROVE  WInv'
<1>1. worker \in WorkerType
  BY DEF IInv, TypeOK, WorkerType
<1>2. worker'.pc # "update" /\ UNCHANGED podCache
  <2>1. CASE CreatePod(p)
    BY <1>1, <2>1 DEF CreatePod, WorkerType, caches
  <2>2. CASE CreatePodFails(p)
    BY <2>2 DEF CreatePodFails, Retry, Idle, caches
  <2>3. CASE StopPolling(p)
    BY <1>1, <2>3 DEF StopPolling, WorkerType, caches
  <2> QED BY <2>1, <2>2, <2>3 DEF ProceedPod
<1>3. VerdictWaits'
  BY <1>2 DEF VerdictWaits
<1>4. ASSUME Creates(p) PROVE PodsGoOn'
  <2>1. "Pending" \in PodPhases \ {"absent"} /\ PodNow(p) \notin Over
    BY <1>4 DEF Creates, Born, Over, PodPhases, Active
  <2> QED BY <2>1, <1>4, LogGoesOn DEF Creates, WInv
<1>5. PodsGoOn'
  <2>1. Creates(p) \/ UNCHANGED podLog
    BY DEF ProceedPod, CreatePod, CreatePodFails, StopPolling, objects
  <2> QED BY <2>1, <1>4 DEF WInv, PodsGoOn
<1>6. CASE CreatePodFails(p)
  <2>1. faults' # 0
    BY <1>6 DEF CreatePodFails, IInv, TypeOK
  <2> QED BY <2>1, <1>3, <1>5 DEF PodsShown, WInv
<1>7. CASE CreatePod(p)
  <2>1. /\ worker.pc = "pods" /\ worker'.pc = "pods"
        /\ worker'.waiting = worker.waiting \cup {p} /\ UNCHANGED faults
    BY <1>1, <1>7 DEF CreatePod, WorkerType, budget
  <2>2. \A q \in Pod \ {p} : podLog'[q] = podLog[q]
    BY <1>7, LogFacts DEF CreatePod, Creates
  <2>3. \A q \in Pod \ {p} : (Born(q)' <=> Born(q)) /\ PodSeen(q)' = PodSeen(q)
    BY <2>2, <1>2 DEF Born, PodNow, PodSeen, Latest
  <2>4. PodsShown'
    BY <2>1, <2>3 DEF PodsShown, WInv
  <2> QED BY <2>4, <1>3, <1>5 DEF WInv
<1>8. CASE StopPolling(p)
  <2>1. /\ UNCHANGED <<podLog, faults>> /\ worker.pc = "pods" /\ worker'.pc = "pods"
        /\ worker'.waiting = worker.waiting \ {p} /\ (PodReady(p) \/ PollTimesOut(p))
    BY <1>1, <1>8 DEF StopPolling, WorkerType, objects, budget
  <2>2. Born(p) => PodSeen(p) # "absent"
    BY <2>1 DEF PodReady, PollTimesOut, Born, PodNow, PodSeen, Latest
  <2>3. \A q \in Pod : (Born(q)' <=> Born(q)) /\ PodSeen(q)' = PodSeen(q)
    BY <2>1, <1>2 DEF Born, PodNow, PodSeen, Latest
  <2>4. PodsShown'
    BY <2>1, <2>2, <2>3 DEF PodsShown, WInv
  <2> QED BY <2>4, <1>3, <1>5 DEF WInv
<1> QED BY <1>6, <1>7, <1>8 DEF ProceedPod

\* A restart drops the verdict that was in hand.
LEMMA RestartWaits ==
    ASSUME IInv, WInv, Restart
    PROVE  WInv'
<1>1. UNCHANGED podLog /\ worker' = Idle /\ podCache' = [p \in Pod |-> Len(podLog[p])]
  BY DEF Restart
<1>2. PodsGoOn' /\ VerdictWaits'
  BY <1>1 DEF WInv, PodsGoOn, VerdictWaits, Idle
<1>3. PodsShown'
  BY <1>1 DEF PodsShown, Born, PodNow, PodSeen, Latest
<1> QED BY <1>2, <1>3 DEF WInv

\* Nothing else touches the pods, their cache or the worker.
LEMMA OthersWait ==
    ASSUME WInv, UNCHANGED <<podLog, podCache, worker, faults>>
    PROVE  WInv'
BY DEF WInv, PodsGoOn, PodsShown, VerdictWaits, NoneActive, Excused, Born, PodNow,
       PodSeen, Latest

\* Every step is one of those above.
LEMMA NextWInv == IInv /\ WInv /\ [Next]_vars => WInv'
<1> SUFFICES ASSUME IInv, WInv, [Next]_vars PROVE WInv'
  OBVIOUS
<1>1. CASE UNCHANGED vars
  BY <1>1, OthersWait DEF vars, objects, caches, budget
<1>2. CASE \E j \in Job : Owner(j) \/ SyncJob(j) \/ SyncTemplate(j) \/ Resync(j)
  BY <1>2, OthersWait
     DEF Owner, CreateJob, CreateTemplate, SetDeleteAfter, DeleteJob, DeleteTemplate,
         SyncJob, SyncTemplate, Resync, objects, caches, budget
<1>3. CASE \E j \in Job : Reconcile(j) \/ Proceed(j)
  BY <1>3, ReconcileWaits, ProceedWaits
<1>4. CASE \E p \in Pod : Cluster(p) \/ SyncPod(p) \/ ProceedPod(p)
  BY <1>4, ClusterWaits, SyncPodWaits, ProceedPodWaits
<1>5. CASE Restart
  BY <1>5, RestartWaits
<1> QED BY <1>1, <1>2, <1>3, <1>4, <1>5 DEF Next

\* At the start the worker is idle and there is no pod.
LEMMA InitWInv == Init => WInv
<1> SUFFICES ASSUME Init PROVE WInv
  OBVIOUS
<1>1. \A p \in Pod : podLog[p] = <<"absent">>
  BY DEF Init
<1>2. worker.pc = "idle"
  BY DEF Init, Idle
<1> QED BY <1>1, <1>2 DEF WInv, PodsGoOn, PodsShown, VerdictWaits, Born, PodNow, Latest

\* Until a call fails, no step of the controller gives a verdict while a pod of
\* the job is active and nothing is failing: not from a cache that has yet to
\* show the pods, nor after a restart between two pods.
THEOREM VerdictsWait == Spec => VerdictAwaitsPods
<1>1. Init => WInv
  BY InitWInv
<1>2. IInv /\ WInv /\ [Next]_vars => WInv'
  BY NextWInv
<1>3. ASSUME IInv, WInv, [Next]_vars, NEW j \in Job, faults = 0,
             Phase(j) = "Running", Phase(j)' \in Terminal, ~JobNow(j)'.deleteAfter
      PROVE  NoneActive(j) \/ Excused(j)
  <2>1. CASE UNCHANGED versions
    BY <2>1, <1>3 DEF Phase, JobNow, Latest, Terminal
  <2>2. CASE \E i \in Job, s \in Status : Publishes(i, s)
    <3>1. PICK i \in Job, s \in Status : Publishes(i, s)
      BY <2>2
    <3>2. i = j /\ JobNow(j)' = s
      BY <3>1, <1>3, PublishKeeps DEF Phase, Terminal
    <3>3. worker.pc = "update" /\ worker.job = j /\ s = worker.outcome
      BY <3>1, <3>2, <1>3 DEF Publishes, Phase, Terminal
    <3> QED BY <3>2, <3>3, <1>3 DEF WInv, VerdictWaits, Phase
  <2> QED BY <2>1, <2>2, <1>3, Effects DEF Moves, Places, Thinks
<1>4. IInv /\ WInv /\ [Next]_vars =>
        [\A j \in Job :
           (faults = 0 /\ Phase(j) = "Running" /\ Phase(j)' \in Terminal /\ ~JobNow(j)'.deleteAfter)
           => \A p \in Pod : p[1] = j /\ PodNow(p) \in Active =>
                \E q \in Pod : /\ SameType(q[1], j)
                               /\ \E i \in 1 .. Len(podLog[q]) : podLog[q][i] = "Failing"
        ]_vars
  BY <1>3 DEF NoneActive, Excused
<1> QED BY <1>1, <1>2, <1>4, Inductive, PTL DEF Spec, VerdictAwaitsPods

-----------------------------------------------------------------------------
(* The controller implements JobLifecycle.                                 *)

\* The variables of JobLifecycle.
Placed == [x \in Job \X Node |-> Cardinality({s \in Suffix : Born(<<x[1], x[2], s>>)})]

SucceededOn == {x \in Job \X Node : NodeDone(x[1], x[2])}

PhaseOf == [j \in Job |-> Phase(j)]

\* The mapped variables stay when what they are made of stays.
LEMMA SameVariables ==
    ASSUME UNCHANGED <<PhaseOf, Placed, SucceededOn>>
    PROVE  UNCHANGED Lifecycle!vars
BY DEF Lifecycle!vars, PhaseOf, Placed, SucceededOn, NodeDone

\* A node has no pod of a job, or one.
LEMMA PlacedFacts ==
    ASSUME IInv, NEW j \in Job, NEW n \in Node
    PROVE  /\ (\A s \in Suffix : ~Born(<<j, n, s>>)) => Placed[<<j, n>>] = 0
           /\ (\E s \in Suffix : Born(<<j, n, s>>)) => Placed[<<j, n>>] = 1
<1> DEFINE S == {s \in Suffix : Born(<<j, n, s>>)}
<1>1. Placed[<<j, n>>] = Cardinality(S)
  BY DEF Placed
<1>2. CASE \A s \in Suffix : ~Born(<<j, n, s>>)
  <2>1. S = {}
    BY <1>2
  <2> QED BY <2>1, <1>1, <1>2, FS_EmptySet
<1>3. CASE \E s \in Suffix : Born(<<j, n, s>>)
  <2>1. PICK s \in Suffix : Born(<<j, n, s>>)
    BY <1>3
  <2>2. S = {s}
    BY <2>1 DEF IInv, OnePodPerNode
  <2> QED BY <2>1, <2>2, <1>1, FS_Singleton
<1> QED BY <1>2, <1>3

\* A step of a pod completes no other node.
LEMMA DoneBy ==
    ASSUME IInv, NEW p \in Pod, NEW ph \in PodPhases,
           podLog' = [podLog EXCEPT ![p] = Append(@, ph)],
           NEW i \in Job, NEW n \in Node, NodeDone(i, n)'
    PROVE  NodeDone(i, n) \/ (ph = "Succeeded" /\ i = p[1] /\ n = p[2])
<1>1. PICK s \in Suffix : \E k \in 1 .. Len(podLog'[<<i, n, s>>]) :
                             podLog'[<<i, n, s>>][k] = "Succeeded"
  BY DEF NodeDone
<1> DEFINE q == <<i, n, s>>
<1>2. q \in Pod
  BY DEF Pod
<1>3. PICK k \in 1 .. Len(podLog'[q]) : podLog'[q][k] = "Succeeded"
  BY <1>1
<1>4. CASE q # p
  <2>1. podLog'[q] = podLog[q]
    BY <1>2, <1>4, LogFacts
  <2> QED BY <1>3, <2>1 DEF NodeDone
<1>5. CASE q = p
  <2>1. /\ Len(podLog'[p]) = Len(podLog[p]) + 1 /\ Len(podLog[p]) \in Nat
        /\ \A m \in 1 .. Len(podLog[p]) : podLog'[p][m] = podLog[p][m]
        /\ podLog'[p][Len(podLog[p]) + 1] = ph
    BY LogFacts, PodMovesFacts DEF PodNow, Latest
  <2>2. k \in 1 .. Len(podLog[p]) \/ k = Len(podLog[p]) + 1
    BY <2>1, <1>3, <1>5
  <2>3. CASE k \in 1 .. Len(podLog[p])
    <3>1. podLog[q][k] = "Succeeded"
      BY <2>1, <2>3, <1>3, <1>5
    <3> QED BY <2>3, <3>1, <1>5 DEF NodeDone
  <2>4. CASE k = Len(podLog[p]) + 1
    <3>1. ph = "Succeeded"
      BY <2>1, <2>4, <1>3, <1>5
    <3> QED BY <3>1, <1>5
  <2> QED BY <2>2, <2>3, <2>4
<1> QED BY <1>4, <1>5

\* A published version is a step of the life of the job, or a stutter.
LEMMA PublishImplements ==
    ASSUME IInv, CInv, NEW j \in Job, NEW s \in Status, Publishes(j, s)
    PROVE  [Lifecycle!Next]_(Lifecycle!vars)
<1>1. /\ \A i \in Job \ {j} : JobNow(i)' = JobNow(i)
      /\ Phase(j)' = s.phase
  BY PublishKeeps
<1>2. PhaseOf' = [PhaseOf EXCEPT ![j] = s.phase]
  BY <1>1 DEF PhaseOf, Phase
<1>3. UNCHANGED <<Placed, SucceededOn>>
  BY DEF Publishes, Placed, SucceededOn, NodeDone, Born, PodNow, Latest
<1>4. JobNow(j) \in Status /\ [JobNow(j) EXCEPT !.deleteAfter = TRUE].phase = Phase(j)
  BY LogFacts DEF Phase, Status
<1>5. CASE Phase(j) = "absent" /\ s.phase = "New"
  BY <1>2, <1>3, <1>5 DEF Lifecycle!Next, Lifecycle!Create, PhaseOf, Placed, SucceededOn, NodeDone
<1>6. CASE Phase(j) = "New" /\ s.phase = "Running"
  BY <1>2, <1>3, <1>6 DEF Lifecycle!Next, Lifecycle!Start, PhaseOf, Placed, SucceededOn, NodeDone
<1>7. CASE Phase(j) = "Running" /\ s.phase = "Failed"
  BY <1>2, <1>3, <1>7 DEF Lifecycle!Next, Lifecycle!Fail, PhaseOf, Placed, SucceededOn, NodeDone
<1>8. CASE Phase(j) = "Running" /\ s.phase = "Completed"
  <2>1. Earned(j)
    BY <1>8 DEF CInv, VerdictsEarned, Publishes, Terminal
  <2>2. RatioNum > 0 /\ Lifecycle!Alone(j) => {j} \X Selected \subseteq SucceededOn
    <3>1. Lifecycle!Alone(j) => OnlyOneOfItsType(j)
      BY DEF Lifecycle!Alone, OnlyOneOfItsType, SameType
    <3> QED BY <3>1, <2>1, SelectedType DEF Earned, SucceededOn
  <2>3. Lifecycle!Complete(j)
    BY <1>2, <1>3, <1>8, <2>2 DEF Lifecycle!Complete, PhaseOf, Placed, SucceededOn, NodeDone
  <2> QED BY <2>3 DEF Lifecycle!Next
<1>9. CASE s.phase = Phase(j)
  <2>1. UNCHANGED PhaseOf
    BY <1>2, <1>9 DEF PhaseOf
  <2> QED BY <2>1, <1>3, SameVariables
<1>10. CASE Phase(j) \notin {"absent", "gone"} /\ s.phase = "gone"
  BY <1>2, <1>3, <1>10 DEF Lifecycle!Next, Lifecycle!Delete, PhaseOf, Placed, SucceededOn, NodeDone
<1> QED BY <1>4, <1>5, <1>6, <1>7, <1>8, <1>9, <1>10 DEF Publishes, LegalMove, Terminal

\* A pod that moves has succeeded on its node, or nothing shows.
LEMMA MoveImplements ==
    ASSUME IInv, CInv, NEW p \in Pod, NEW ph \in PodPhases, Moves(p, ph)
    PROVE  [Lifecycle!Next]_(Lifecycle!vars)
<1>1. /\ \A i \in Job : Phase(i)' = Phase(i)
      /\ \A q \in Pod \ {p} : podLog'[q] = podLog[q] /\ (Born(q)' <=> Born(q))
      /\ Len(podLog'[p]) = Len(podLog[p]) + 1
      /\ PodNow(p)' = ph /\ podLog'[p][Len(podLog[p]) + 1] = ph
      /\ \A i \in 1 .. Len(podLog[p]) : podLog'[p][i] = podLog[p][i]
      /\ \A i \in Job, n \in Node : NodeDone(i, n) => NodeDone(i, n)'
  BY PodStepKeeps DEF Moves, PodMoves
<1>2. \A q \in Pod : Born(q)' <=> Born(q)
  BY <1>1 DEF Moves, Born
<1>3. PhaseOf' = PhaseOf
  BY <1>1 DEF PhaseOf
<1>4. Placed' = Placed
  <2>1. \A x \in Job \X Node : {s \in Suffix : Born(<<x[1], x[2], s>>)'}
                               = {s \in Suffix : Born(<<x[1], x[2], s>>)}
    BY <1>2 DEF Pod
  <2> QED BY <2>1 DEF Placed
<1>5. p[1] \in Job /\ p[2] \in Node /\ p[3] \in Suffix /\ p = <<p[1], p[2], p[3]>>
  BY DEF Pod
<1>6. \A i \in Job, n \in Node : NodeDone(i, n)' => NodeDone(i, n) \/ (i = p[1] /\ n = p[2])
  BY DoneBy DEF Moves, PodMoves
<1>7. SucceededOn' = SucceededOn \/ SucceededOn' = SucceededOn \cup {<<p[1], p[2]>>}
  <2>1. SucceededOn \subseteq SucceededOn'
    BY <1>1 DEF SucceededOn
  <2>2. SucceededOn' \subseteq SucceededOn \cup {<<p[1], p[2]>>}
    BY <1>6 DEF SucceededOn
  <2> QED BY <2>1, <2>2
<1>8. Placed[<<p[1], p[2]>>] = 1
  BY <1>5, PlacedFacts DEF Moves
<1>9. CASE SucceededOn' = SucceededOn
  BY <1>3, <1>4, <1>9, SameVariables
<1>10. CASE SucceededOn' = SucceededOn \cup {<<p[1], p[2]>>}
  <2>1. Lifecycle!Succeed(p[1], p[2])
    BY <1>3, <1>4, <1>8, <1>10 DEF Lifecycle!Succeed, PhaseOf, Placed, SucceededOn, NodeDone
  <2> QED BY <2>1, <1>5 DEF Lifecycle!Next
<1> QED BY <1>7, <1>9, <1>10

\* A pod that is created is a node that the job reaches.
LEMMA PlaceImplements ==
    ASSUME IInv, CInv, NEW p \in Pod, Places(p)
    PROVE  [Lifecycle!Next]_(Lifecycle!vars)
<1>0. "Pending" \in PodPhases /\ podLog' = [podLog EXCEPT ![p] = Append(@, "Pending")]
      /\ UNCHANGED versions
  BY DEF Places, Creates, PodPhases, Active
<1>1. /\ \A i \in Job : Phase(i)' = Phase(i)
      /\ \A q \in Pod \ {p} : podLog'[q] = podLog[q] /\ (Born(q)' <=> Born(q))
      /\ Len(podLog'[p]) = Len(podLog[p]) + 1
      /\ PodNow(p)' = "Pending" /\ podLog'[p][Len(podLog[p]) + 1] = "Pending"
      /\ \A i \in 1 .. Len(podLog[p]) : podLog'[p][i] = podLog[p][i]
      /\ \A i \in Job, n \in Node : NodeDone(i, n) => NodeDone(i, n)'
  BY <1>0, PodStepKeeps
<1>2. p[1] \in Job /\ p[2] \in Node /\ p[3] \in Suffix /\ p = <<p[1], p[2], p[3]>>
  BY DEF Pod
<1>3. PhaseOf' = PhaseOf /\ PhaseOf[p[1]] \in {"Running", "gone"}
  BY <1>1, <1>2 DEF PhaseOf, Places, CInv, PlacesInTime
<1>4. p[2] \in Selected /\ \A s \in Suffix : ~Born(<<p[1], p[2], s>>)
  BY DEF Places, CInv, OnSelected, IInv, WorkerCreates
<1>5. \A i \in Job, n \in Node : NodeDone(i, n)' => NodeDone(i, n)
  BY <1>0, DoneBy
<1>6. SucceededOn' = SucceededOn
  BY <1>1, <1>5 DEF SucceededOn
<1>7. Placed[<<p[1], p[2]>>] = 0
  BY <1>2, <1>4, PlacedFacts
<1>8. Placed'[<<p[1], p[2]>>] = 1
  <2>1. {s \in Suffix : Born(<<p[1], p[2], s>>)'} = {p[3]}
    <3>1. Born(p)'
      BY <1>1 DEF Born
    <3>2. \A s \in Suffix \ {p[3]} : ~Born(<<p[1], p[2], s>>)'
      BY <1>1, <1>2, <1>4 DEF Pod
    <3> QED BY <3>1, <3>2, <1>2
  <2> QED BY <2>1, <1>2, FS_Singleton DEF Placed
<1>9. \A x \in Job \X Node : x # <<p[1], p[2]>> => Placed'[x] = Placed[x]
  <2> TAKE x \in Job \X Node
  <2> HAVE x # <<p[1], p[2]>>
  <2>1. \A s \in Suffix : <<x[1], x[2], s>> \in Pod \ {p}
    BY <1>2 DEF Pod
  <2>2. {s \in Suffix : Born(<<x[1], x[2], s>>)'} = {s \in Suffix : Born(<<x[1], x[2], s>>)}
    BY <2>1, <1>1
  <2> QED BY <2>2 DEF Placed
<1>10. Placed' = [Placed EXCEPT ![<<p[1], p[2]>>] = 1]
  BY <1>8, <1>9, <1>2 DEF Placed
<1>11. Lifecycle!Place(p[1], p[2])
  BY <1>3, <1>4, <1>6, <1>7, <1>10
     DEF Lifecycle!Place, PhaseOf, Placed, SucceededOn, NodeDone
<1> QED BY <1>11, <1>2 DEF Lifecycle!Next

\* A decision does not show until it is written.
LEMMA ThinkImplements ==
    ASSUME Thinks
    PROVE  UNCHANGED Lifecycle!vars
<1>1. UNCHANGED <<PhaseOf, Placed, SucceededOn>>
  BY DEF Thinks, PhaseOf, Phase, JobNow, Latest, Placed, SucceededOn, NodeDone, Born, PodNow
<1> QED BY <1>1, SameVariables

\* The first state of the controller is one of the abstract machine.
LEMMA InitImplements == Init => Lifecycle!Init
<1> SUFFICES ASSUME Init PROVE Lifecycle!Init
  OBVIOUS
<1>1. /\ \A j \in Job : versions[j] = <<Blank("absent")>>
      /\ \A p \in Pod : podLog[p] = <<"absent">>
      /\ Blank("absent").phase = "absent"
  BY DEF Init, Blank
<1>2. \A p \in Pod : ~Born(p)
  BY <1>1 DEF Born, PodNow, Latest
<1>3. PhaseOf = [j \in Job |-> "absent"]
  BY <1>1 DEF PhaseOf, Phase, JobNow, Latest
<1>4. Placed = [x \in Job \X Node |-> 0]
  <2>1. \A x \in Job \X Node : {s \in Suffix : Born(<<x[1], x[2], s>>)} = {}
    BY <1>2 DEF Pod
  <2> QED BY <2>1, FS_EmptySet DEF Placed
<1>5. SucceededOn = {}
  <2>1. \A p \in Pod : \A k \in 1 .. Len(podLog[p]) : podLog[p][k] # "Succeeded"
    BY <1>1
  <2>2. \A x \in Job \X Node, s \in Suffix : <<x[1], x[2], s>> \in Pod
    BY DEF Pod
  <2> QED BY <2>1, <2>2 DEF SucceededOn, NodeDone
<1> QED BY <1>3, <1>4, <1>5 DEF Lifecycle!Init, PhaseOf, Placed, SucceededOn, NodeDone

\* The controller, with its stale caches, retries and restarts, implements the
\* life cycle its owners rely on, for all values of the constants.
THEOREM LifecycleIsImplemented == Spec => ImplementsLifecycle
<1>1. IInv /\ CInv /\ [Next]_vars => [Lifecycle!Next]_(Lifecycle!vars)
  BY Effects, PublishImplements, MoveImplements, PlaceImplements, ThinkImplements
<1> QED BY <1>1, InitImplements, InductiveC, PTL
        DEF Spec, ImplementsLifecycle, Lifecycle!Spec
=============================================================================
