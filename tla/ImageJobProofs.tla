--------------------------- MODULE ImageJobProofs ---------------------------
(***************************************************************************)
(* Safety of the imagejob controller for any number of jobs, nodes, faults *)
(* and restarts.  The inductive invariant IInv adds to the properties what *)
(* ties the worker to the histories: the version it read is one the job    *)
(* had, was not final, and decides what it is about to write; and while it *)
(* creates pods, the job is started and the nodes still to do have none.   *)
(***************************************************************************)
EXTENDS ImageJob, FiniteSetTheorems, TLAPS

\* The informers are never ahead of the API server.
CachesBehind ==
    /\ \A j \in Job : jobCache[j] <= Len(versions[j])
    /\ \A p \in Pod : podCache[p] <= Len(podLog[p])

\* What the worker is about to write is justified by the version it read.
WorkerUpdates ==
    worker.pc = "update" =>
        /\ worker.job \in Job
        /\ worker.seen \in 1 .. Len(versions[worker.job])
        /\ \/ /\ versions[worker.job][worker.seen].phase = "New"
              /\ worker.outcome.phase = "Running"
           \/ /\ versions[worker.job][worker.seen].phase = "Running"
              /\ worker.outcome.phase \in Terminal

\* While pods are created, the job is started and the nodes to do are empty.
WorkerCreates ==
    worker.pc = "pods" =>
        /\ worker.job \in Job
        /\ Phase(worker.job) \notin {"absent", "New"}
        /\ \A n \in worker.todo, s \in Suffix : ~Born(<<worker.job, n, s>>)

IInv == /\ TypeOK /\ CachesBehind
        /\ WorkerUpdates /\ WorkerCreates
        /\ PodsOnlyOfStartedJobs /\ OnePodPerNode
        /\ VerdictIsFinal

-----------------------------------------------------------------------------
(* Histories.                                                              *)

\* Appending to a history keeps what it had and makes the new element the
\* latest.
LEMMA AppendFacts ==
    ASSUME NEW S, NEW log \in Seq(S), NEW e \in S
    PROVE  /\ Append(log, e) \in Seq(S)
           /\ Len(Append(log, e)) = Len(log) + 1
           /\ Latest(Append(log, e)) = e
           /\ \A i \in 1 .. Len(log) : Append(log, e)[i] = log[i]
BY DEF Latest

\* A status update changes the history of one job.
LEMMA WriteFacts ==
    ASSUME versions \in [Job -> Seq(Status)], NEW j \in Job, NEW s \in Status,
           Write(j, s)
    PROVE  /\ versions' \in [Job -> Seq(Status)]
           /\ Len(versions'[j]) = Len(versions[j]) + 1
           /\ JobNow(j)' = s
           /\ \A v \in 1 .. Len(versions[j]) : versions'[j][v] = versions[j][v]
           /\ \A i \in Job \ {j} : versions'[i] = versions[i]
<1>1. versions' = [versions EXCEPT ![j] = Append(versions[j], s)]
  BY DEF Write
<1>2. versions'[j] = Append(versions[j], s)
  BY <1>1
<1> QED BY <1>1, <1>2, AppendFacts DEF JobNow

\* A move of a pod changes the history of that pod.
LEMMA PodMovesFacts ==
    ASSUME podLog \in [Pod -> Seq(PodPhases)], NEW p \in Pod, NEW ph \in PodPhases,
           podLog' = [podLog EXCEPT ![p] = Append(@, ph)]
    PROVE  /\ podLog' \in [Pod -> Seq(PodPhases)]
           /\ Len(podLog'[p]) = Len(podLog[p]) + 1
           /\ PodNow(p)' = ph
           /\ \A i \in 1 .. Len(podLog[p]) : podLog'[p][i] = podLog[p][i]
           /\ \A q \in Pod \ {p} : podLog'[q] = podLog[q]
<1>1. podLog'[p] = Append(podLog[p], ph)
  OBVIOUS
<1> QED BY <1>1, AppendFacts DEF PodNow
-----------------------------------------------------------------------------
(* What is written is well typed.                                          *)

\* A blank status of a known phase is a status.
LEMMA BlankType == \A ph \in Phases : Blank(ph) \in Status /\ Blank(ph).phase = ph
BY DEF Blank, Status

\* The filter selects nodes.
LEMMA SelectedType == Selected \subseteq Node
BY ImageJobAssumption DEF Selected

\* There are finitely many pods.
LEMMA PodFinite == IsFiniteSet(Pod)
<1> DEFINE Place == Node \X Suffix
           Pairs == Job \X Place
           f == [p \in Pod |-> <<p[1], <<p[2], p[3]>> >>]
<1>1. IsFiniteSet(Place)
  BY ImageJobAssumption, FS_Product
<1>2. \A n \in Node, s \in Suffix : <<n, s>> \in Place
  OBVIOUS
<1> HIDE DEF Place
<1>3. IsFiniteSet(Pairs)
  BY <1>1, ImageJobAssumption, FS_Product
<1>4. f \in Injection(Pod, Pairs)
  <2>1. \A p \in Pod : f[p] \in Pairs
    BY <1>2 DEF Pod
  <2>2. \A p, q \in Pod : f[p] = f[q] => p = q
    BY DEF Pod
  <2> QED BY <2>1, <2>2 DEF Injection, IsInjective
<1> QED BY <1>3, <1>4, FS_Injection

\* The status of a started job counts all nodes and the skipped ones.
LEMMA StartedType == Started \in Status /\ Started.phase = "Running"
<1>1. Cardinality(Node) \in Nat /\ Cardinality(Node \ Selected) \in Nat
  BY ImageJobAssumption, FS_Subset, FS_CardinalityType
<1> QED BY <1>1, BlankType DEF Started, Status, Phases, Blank

\* The verdict is Completed or Failed, and both counters are numbers.
LEMMA TallyType ==
    ASSUME NEW status \in Status, NEW pods \in SUBSET Pod
    PROVE  Tally(status, pods) \in Status /\ Tally(status, pods).phase \in Terminal
<1> DEFINE good == {p \in pods : PodSeen(p) = "Succeeded"}
           ok == Cardinality(good)
           quotient == (ok + status.skipped) \div status.desired
           phase == IF quotient * RatioDen < RatioNum THEN "Failed" ELSE "Completed"
<1>1. IsFiniteSet(pods) /\ good \subseteq pods
  BY PodFinite, FS_Subset
<1>2. ok \in Nat /\ Cardinality(pods) \in Nat /\ ok <= Cardinality(pods)
  BY <1>1, FS_Subset, FS_CardinalityType
<1>3. Cardinality(pods) - ok \in Nat
  BY <1>2
<1>4. phase \in Terminal
  BY DEF Terminal
<1>5. Tally(status, pods) = [status EXCEPT !.phase = phase, !.succeeded = ok,
                                !.failed = Cardinality(pods) - ok, !.deleteAfter = FALSE]
  BY DEF Tally
<1> HIDE DEF ok, phase
<1> QED BY <1>2, <1>3, <1>4, <1>5 DEF Status, Phases, Terminal

-----------------------------------------------------------------------------
(* The three ways the objects change.                                      *)

\* The parts of IInv that do not speak of the worker.
ObjectsInv == /\ CachesBehind /\ PodsOnlyOfStartedJobs
              /\ OnePodPerNode /\ VerdictIsFinal

WorkerInv == WorkerUpdates /\ WorkerCreates

\* The moves of a job that its history may record.
LegalMove(j, status) ==
    \/ Phase(j) = "absent" /\ status.phase = "New"
    \/ Phase(j) = "New" /\ status.phase = "Running"
    \/ Phase(j) = "Running" /\ status.phase \in Terminal
    \/ Phase(j) \in Terminal /\ status = [JobNow(j) EXCEPT !.deleteAfter = TRUE]
    \/ Phase(j) # "absent" /\ status.phase = "gone"

\* A legal status update, the pods and the informers unchanged.
LEMMA PublishSafe ==
    ASSUME IInv, NEW j \in Job, NEW s \in Status, Write(j, s), LegalMove(j, s),
           UNCHANGED <<podLog, jobCache, podCache>>
    PROVE  /\ versions' \in [Job -> Seq(Status)]
           /\ ObjectsInv'
           /\ UNCHANGED worker => WorkerInv'
<1>0. /\ versions \in [Job -> Seq(Status)] /\ podLog \in [Pod -> Seq(PodPhases)]
      /\ jobCache \in [Job -> Nat \ {0}] /\ podCache \in [Pod -> Nat \ {0}]
      /\ \A i \in Job : jobCache[i] <= Len(versions[i])
      /\ \A q \in Pod : podCache[q] <= Len(podLog[q])
      /\ PodsOnlyOfStartedJobs /\ OnePodPerNode /\ VerdictIsFinal
      /\ WorkerUpdates /\ WorkerCreates
      /\ worker.todo \subseteq Node
  BY DEF IInv, TypeOK, CachesBehind
<1>1. /\ versions' \in [Job -> Seq(Status)]
      /\ Len(versions'[j]) = Len(versions[j]) + 1
      /\ JobNow(j)' = s
      /\ \A v \in 1 .. Len(versions[j]) : versions'[j][v] = versions[j][v]
      /\ \A i \in Job \ {j} : versions'[i] = versions[i]
  BY <1>0, WriteFacts
<1>2. \A i \in Job : Len(versions[i]) \in Nat \ {0} /\ Len(versions'[i]) >= Len(versions[i])
  BY <1>0, <1>1
<1>3. \A i \in Job \ {j} : JobNow(i)' = JobNow(i) /\ Phase(i)' = Phase(i)
  BY <1>1 DEF JobNow, Phase, Latest
<1>4. Phase(j)' = s.phase
  BY <1>1 DEF Phase
<1>5. \A p \in Pod : PodNow(p)' = PodNow(p) /\ (Born(p)' <=> Born(p))
  BY DEF PodNow, Born, Latest
<1>6. CachesBehind'
  BY <1>0, <1>1, <1>2 DEF CachesBehind
<1>7. \A i \in Job : Phase(i) \notin {"absent", "New"} => Phase(i)' \notin {"absent", "New"}
  <2>1. JobNow(j) \in Status
    BY <1>0, <1>2 DEF JobNow, Latest
  <2>2. [JobNow(j) EXCEPT !.deleteAfter = TRUE].phase = Phase(j)
    BY <2>1 DEF Status, Phase
  <2>3. s.phase \notin {"absent", "New"} \/ Phase(j) \in {"absent", "New"}
    BY <2>2 DEF LegalMove, Terminal
  <2>4. Phase(j) = "New" => s.phase # "absent"
    BY DEF LegalMove, Terminal
  <2> QED BY <2>3, <1>3, <1>4
<1>8. PodsOnlyOfStartedJobs'
  BY <1>0, <1>5, <1>7 DEF PodsOnlyOfStartedJobs, Pod
<1>9. OnePodPerNode'
  BY <1>0, <1>5 DEF OnePodPerNode, Pod
<1>10. VerdictIsFinal'
  <2> SUFFICES ASSUME NEW i \in Job,
                      NEW v \in 1 .. Len(versions'[i]), NEW w \in 1 .. Len(versions'[i]),
                      v < w, versions'[i][v].phase \in Terminal,
                      versions'[i][w].phase # "gone"
               PROVE  \/ versions'[i][w] = versions'[i][v]
                      \/ versions'[i][w] = [versions'[i][v] EXCEPT !.deleteAfter = TRUE]
    BY DEF VerdictIsFinal
  <2>1. CASE i # j
    <3> VerdictIsFinal /\ versions'[i] = versions[i]
      BY <2>1, <1>1, <1>0
    <3> QED BY DEF VerdictIsFinal
  <2>2. CASE i = j /\ w <= Len(versions[j])
    <3>1. v \in 1 .. Len(versions[j]) /\ w \in 1 .. Len(versions[j])
      BY <2>2, <1>1, <1>2
    <3>2. versions'[i][v] = versions[i][v] /\ versions'[i][w] = versions[i][w]
      BY <3>1, <2>2, <1>1
    <3>3. VerdictIsFinal
      BY <1>0
    <3> QED BY <3>1, <3>2, <3>3, <2>2 DEF VerdictIsFinal
  <2>3. CASE i = j /\ w > Len(versions[j])
    <3>1. w = Len(versions[j]) + 1 /\ v \in 1 .. Len(versions[j])
      BY <2>3, <1>1, <1>2
    <3>2. versions'[j][w] = s /\ versions'[j][v] = versions[j][v]
      BY <3>1, <1>1 DEF JobNow, Latest
    <3>3. s.phase # "gone" /\ versions[j][v].phase \in Terminal
      BY <3>2, <2>3
    <3>4. Len(versions[j]) \in 1 .. Len(versions[j])
      BY <1>2
    <3>5. \/ JobNow(j) = versions[j][v]
          \/ JobNow(j) = [versions[j][v] EXCEPT !.deleteAfter = TRUE]
          \/ JobNow(j).phase = "gone"
      <4>1. (VerdictIsFinal /\ v < Len(versions[j])) \/ v = Len(versions[j])
        BY <3>1, <1>0, <1>2
      <4> QED BY <4>1, <3>1, <3>3, <3>4 DEF VerdictIsFinal, JobNow, Latest
    <3>6. versions[j][v] \in Status
      BY <3>1, <1>0
    <3>7. Phase(j) \in Terminal \cup {"gone"}
      BY <3>5, <3>6, <3>3 DEF Phase, Status
    <3>8. Phase(j) \in Terminal /\ s = [JobNow(j) EXCEPT !.deleteAfter = TRUE]
      BY <3>7, <3>3 DEF LegalMove, Terminal, Phase
    <3>9. \/ JobNow(j) = versions[j][v]
          \/ JobNow(j) = [versions[j][v] EXCEPT !.deleteAfter = TRUE]
      BY <3>5, <3>8 DEF Phase, Terminal
    <3>10. s = [versions[j][v] EXCEPT !.deleteAfter = TRUE]
      BY <3>8, <3>9
    <3> QED BY <3>2, <3>6, <3>10, <2>3
  <2> QED BY <2>1, <2>2, <2>3, <1>1, <1>2
<1>11. ASSUME UNCHANGED worker PROVE WorkerInv'
  <2>1. WorkerUpdates'
    <3>1. ASSUME worker.pc = "update"
          PROVE  /\ worker.seen \in 1 .. Len(versions'[worker.job])
                 /\ versions'[worker.job][worker.seen] = versions[worker.job][worker.seen]
      <4>1. worker.job \in Job /\ worker.seen \in 1 .. Len(versions[worker.job])
        BY <3>1, <1>0 DEF WorkerUpdates
      <4>2. CASE worker.job = j
        BY <4>1, <4>2, <1>1, <1>2
      <4>3. CASE worker.job # j
        BY <4>1, <4>3, <1>1
      <4> QED BY <4>2, <4>3
    <3> QED BY <3>1, <1>0, <1>11 DEF WorkerUpdates
  <2>2. WorkerCreates'
    BY <1>0, <1>5, <1>7, <1>11 DEF WorkerCreates, Pod
  <2> QED BY <2>1, <2>2 DEF WorkerInv
<1> QED BY <1>1, <1>6, <1>8, <1>9, <1>10, <1>11 DEF ObjectsInv

\* A pod that exists moves to another phase.
LEMMA PodMoveSafe ==
    ASSUME IInv, NEW p \in Pod, NEW ph \in PodPhases \ {"absent"}, Born(p),
           PodMoves(p, ph), UNCHANGED <<versions, jobCache, podCache>>
    PROVE  /\ podLog' \in [Pod -> Seq(PodPhases)]
           /\ ObjectsInv'
           /\ UNCHANGED worker => WorkerInv'
<1>0. /\ versions \in [Job -> Seq(Status)] /\ podLog \in [Pod -> Seq(PodPhases)]
      /\ jobCache \in [Job -> Nat \ {0}] /\ podCache \in [Pod -> Nat \ {0}]
      /\ \A i \in Job : jobCache[i] <= Len(versions[i])
      /\ \A q \in Pod : podCache[q] <= Len(podLog[q])
      /\ PodsOnlyOfStartedJobs /\ OnePodPerNode /\ VerdictIsFinal
      /\ WorkerUpdates /\ WorkerCreates
      /\ worker.todo \subseteq Node
  BY DEF IInv, TypeOK, CachesBehind
<1>1. /\ podLog' \in [Pod -> Seq(PodPhases)]
      /\ Len(podLog'[p]) = Len(podLog[p]) + 1
      /\ PodNow(p)' = ph
      /\ \A q \in Pod \ {p} : podLog'[q] = podLog[q]
  BY <1>0, PodMovesFacts DEF PodMoves
<1>2. \A q \in Pod : Born(q)' <=> Born(q)
  BY <1>1 DEF Born, PodNow, Latest
<1>3. \A j \in Job : Phase(j)' = Phase(j)
  BY DEF Phase, JobNow, Latest
<1>4. CachesBehind'
  <2>1. \A i \in Job : jobCache'[i] <= Len(versions'[i])
    BY <1>0
  <2>2. \A q \in Pod \ {p} : podCache'[q] <= Len(podLog'[q])
    BY <1>0, <1>1
  <2>3. podCache'[p] <= Len(podLog'[p])
    BY <1>0, <1>1
  <2> QED BY <2>1, <2>2, <2>3 DEF CachesBehind
<1>5. PodsOnlyOfStartedJobs' /\ OnePodPerNode'
  BY <1>0, <1>2, <1>3 DEF PodsOnlyOfStartedJobs, OnePodPerNode, Pod
<1>6. VerdictIsFinal'
  <2> VerdictIsFinal /\ versions' = versions
    BY <1>0
  <2> QED BY DEF VerdictIsFinal
<1>7. ASSUME UNCHANGED worker PROVE WorkerInv'
  <2>1. WorkerUpdates'
    BY <1>0, <1>7 DEF WorkerUpdates
  <2>2. WorkerCreates'
    BY <1>0, <1>2, <1>3, <1>7 DEF WorkerCreates, Pod
  <2> QED BY <2>1, <2>2 DEF WorkerInv
<1> QED BY <1>1, <1>4, <1>5, <1>6, <1>7 DEF ObjectsInv

\* A pod is created on a node that is still to do.
LEMMA CreateSafe ==
    ASSUME IInv, NEW p \in Pod, Creates(p),
           worker.pc = "pods", worker.job = p[1], p[2] \in worker.todo,
           UNCHANGED <<versions, jobCache, podCache>>
    PROVE  /\ podLog' \in [Pod -> Seq(PodPhases)]
           /\ ObjectsInv'
           /\ \A q \in Pod : q[2] # p[2] => (Born(q)' <=> Born(q))
<1>0. /\ versions \in [Job -> Seq(Status)] /\ podLog \in [Pod -> Seq(PodPhases)]
      /\ jobCache \in [Job -> Nat \ {0}] /\ podCache \in [Pod -> Nat \ {0}]
      /\ \A i \in Job : jobCache[i] <= Len(versions[i])
      /\ \A q \in Pod : podCache[q] <= Len(podLog[q])
      /\ PodsOnlyOfStartedJobs /\ OnePodPerNode /\ VerdictIsFinal
      /\ WorkerUpdates /\ WorkerCreates
      /\ worker.todo \subseteq Node
  BY DEF IInv, TypeOK, CachesBehind
<1>1. /\ podLog' \in [Pod -> Seq(PodPhases)]
      /\ Len(podLog'[p]) = Len(podLog[p]) + 1
      /\ \A q \in Pod \ {p} : podLog'[q] = podLog[q]
  BY <1>0, PodMovesFacts DEF Creates, PodPhases, Active
<1>2. \A q \in Pod \ {p} : Born(q)' <=> Born(q)
  BY <1>1 DEF Born, PodNow, Latest
<1>3. \A j \in Job : Phase(j)' = Phase(j)
  BY DEF Phase, JobNow, Latest
<1>4. CachesBehind'
  <2>1. \A i \in Job : jobCache'[i] <= Len(versions'[i])
    BY <1>0
  <2>2. \A q \in Pod \ {p} : podCache'[q] <= Len(podLog'[q])
    BY <1>0, <1>1
  <2>3. podCache'[p] <= Len(podLog'[p])
    BY <1>0, <1>1
  <2> QED BY <2>1, <2>2, <2>3 DEF CachesBehind
<1>5. PodsOnlyOfStartedJobs'
  BY <1>0, <1>2, <1>3 DEF PodsOnlyOfStartedJobs, WorkerCreates, Pod
<1>6. OnePodPerNode'
  <2> SUFFICES ASSUME NEW j \in Job, NEW n \in Node, NEW s \in Suffix, NEW t \in Suffix,
                      Born(<<j, n, s>>)', Born(<<j, n, t>>)'
               PROVE  s = t
    BY DEF OnePodPerNode
  <2>1. CASE j = p[1] /\ n = p[2]
    <3>1. ~Born(<<j, n, s>>) /\ ~Born(<<j, n, t>>)
      BY <1>0, <2>1 DEF WorkerCreates
    <3>2. <<j, n, s>> = p /\ <<j, n, t>> = p
      BY <3>1, <1>2 DEF Pod
    <3> QED BY <3>2
  <2>2. CASE ~(j = p[1] /\ n = p[2])
    <3>1. <<j, n, s>> \in Pod \ {p} /\ <<j, n, t>> \in Pod \ {p}
      BY <2>2 DEF Pod
    <3> QED BY <3>1, <1>2, <1>0 DEF OnePodPerNode
  <2> QED BY <2>1, <2>2
<1>7. VerdictIsFinal'
  <2> VerdictIsFinal /\ versions' = versions
    BY <1>0
  <2> QED BY DEF VerdictIsFinal
<1>8. \A q \in Pod : q[2] # p[2] => (Born(q)' <=> Born(q))
  BY <1>2
<1> QED BY <1>1, <1>4, <1>5, <1>6, <1>7, <1>8 DEF ObjectsInv

\* Objects and informers unchanged.
LEMMA StutterSafe ==
    ASSUME IInv, UNCHANGED <<versions, podLog, jobCache, podCache>>
    PROVE  ObjectsInv' /\ (UNCHANGED worker => WorkerInv')
<1>1. ObjectsInv /\ WorkerInv
  BY DEF IInv, ObjectsInv, WorkerInv
<1>2. ObjectsInv'
  BY <1>1 DEF ObjectsInv, CachesBehind, PodsOnlyOfStartedJobs, OnePodPerNode,
     VerdictIsFinal, Born, PodNow, Phase, JobNow, Latest
<1>3. UNCHANGED worker => WorkerInv'
  BY <1>1 DEF WorkerInv, WorkerUpdates, WorkerCreates, Born, PodNow, Phase, JobNow, Latest
<1> QED BY <1>2, <1>3

\* An idle worker owes nothing.
LEMMA IdleSafe ==
    ASSUME worker' = Idle
    PROVE  /\ WorkerInv'
           /\ worker' \in [pc : {"idle", "update", "pods"}, job : Job \cup {NoJob},
                           seen : Nat, outcome : Status,
                           todo : SUBSET Node, waiting : SUBSET Pod]
BY BlankType DEF Idle, WorkerInv, WorkerUpdates, WorkerCreates, Phases

-----------------------------------------------------------------------------
(* The inductive step: one step per action.                                *)

WorkerType == [pc : {"idle", "update", "pods"}, job : Job \cup {NoJob},
               seen : Nat, outcome : Status,
               todo : SUBSET Node, waiting : SUBSET Pod]

\* IInv regrouped: types, objects, worker.
LEMMA IInvParts ==
    ASSUME TypeOK', ObjectsInv', WorkerInv'
    PROVE  IInv'
BY DEF IInv, ObjectsInv, WorkerInv

\* The owners only make legal moves.
LEMMA OwnerStep ==
    ASSUME IInv, NEW j \in Job, Owner(j)
    PROVE  IInv'
<1>1. TypeOK
  BY DEF IInv
<1>2. JobNow(j) \in Status
  BY <1>1 DEF IInv, TypeOK, CachesBehind, JobNow, Latest
<1>3. CASE CreateJob(j)
  <2>1. Blank("New") \in Status /\ LegalMove(j, Blank("New")) /\ Write(j, Blank("New"))
    BY <1>3, BlankType DEF CreateJob, LegalMove, Phases
  <2>2. UNCHANGED <<podLog, jobCache, podCache, worker>>
    BY <1>3 DEF CreateJob, caches
  <2>3. versions' \in [Job -> Seq(Status)] /\ ObjectsInv' /\ WorkerInv'
    BY <2>1, <2>2, PublishSafe
  <2>4. TypeOK'
    BY <2>3, <1>1, <1>3 DEF TypeOK, CreateJob, caches, budget
  <2> QED BY <2>3, <2>4, IInvParts
<1>4. CASE SetDeleteAfter(j)
  <2> DEFINE s == [JobNow(j) EXCEPT !.deleteAfter = TRUE]
  <2>1. s \in Status
    BY <1>2 DEF Status
  <2>2. LegalMove(j, s) /\ Write(j, s)
    BY <1>4 DEF SetDeleteAfter, LegalMove
  <2>3. UNCHANGED <<podLog, jobCache, podCache, worker>>
    BY <1>4 DEF SetDeleteAfter, caches
  <2> HIDE DEF s
  <2>4. versions' \in [Job -> Seq(Status)] /\ ObjectsInv' /\ WorkerInv'
    BY <2>1, <2>2, <2>3, PublishSafe
  <2>5. TypeOK'
    BY <2>4, <1>1, <1>4 DEF TypeOK, SetDeleteAfter, caches, budget
  <2> QED BY <2>4, <2>5, IInvParts
<1>5. CASE DeleteJob(j)
  <2>1. Blank("gone") \in Status /\ LegalMove(j, Blank("gone")) /\ Write(j, Blank("gone"))
    BY <1>5, BlankType DEF DeleteJob, LegalMove, Phases
  <2>2. UNCHANGED <<podLog, jobCache, podCache, worker>>
    BY <1>5 DEF DeleteJob, caches
  <2>3. versions' \in [Job -> Seq(Status)] /\ ObjectsInv' /\ WorkerInv'
    BY <2>1, <2>2, PublishSafe
  <2>4. TypeOK'
    BY <2>3, <1>1, <1>5 DEF TypeOK, DeleteJob, caches, budget
  <2> QED BY <2>3, <2>4, IInvParts
<1>6. CASE CreateTemplate(j) \/ DeleteTemplate(j)
  <2>1. UNCHANGED <<versions, podLog, jobCache, podCache, worker>>
    BY <1>6 DEF CreateTemplate, DeleteTemplate, caches
  <2>2. ObjectsInv' /\ WorkerInv'
    BY <2>1, StutterSafe
  <2>3. TypeOK'
    BY <1>1, <1>6 DEF TypeOK, CreateTemplate, DeleteTemplate, caches, budget
  <2> QED BY <2>2, <2>3, IInvParts
<1> QED BY <1>3, <1>4, <1>5, <1>6 DEF Owner

\* The fault counter keeps its bounds.
LEMMA FaultType ==
    ASSUME TypeOK
    PROVE  /\ faults \in 0 .. MaxFaults
           /\ MayFail /\ faults' = faults + 1 => faults' \in 0 .. MaxFaults
BY ImageJobAssumption DEF TypeOK, MayFail

\* The kubelets and the garbage collector move pods that exist.
LEMMA ClusterStep ==
    ASSUME IInv, NEW p \in Pod, Cluster(p)
    PROVE  IInv'
<1>1. TypeOK
  BY DEF IInv
<1>2. PICK ph \in PodPhases \ {"absent"} : PodMoves(p, ph)
  BY DEF Cluster, Kubelet, PodRuns, ContainerFails, PodSucceeds, PodFails,
         PodLost, CollectPod, PodPhases, Active
<1>3. Born(p)
  BY DEF Cluster, Kubelet, PodRuns, ContainerFails, PodSucceeds, PodFails,
         PodLost, CollectPod, Born, Active
<1>4. UNCHANGED <<versions, template, jobCache, podCache, templateCache, queue, worker, restarts>>
      /\ faults' \in 0 .. MaxFaults
  <2>1. UNCHANGED faults \/ (MayFail /\ faults' = faults + 1)
    BY DEF Cluster, Kubelet, PodRuns, ContainerFails, PodSucceeds, PodFails,
           PodLost, CollectPod, budget
  <2>2. faults' \in 0 .. MaxFaults
    BY <1>1, <2>1, FaultType
  <2> QED BY <2>2 DEF Cluster, Kubelet, PodRuns, ContainerFails, PodSucceeds, PodFails,
                      PodLost, CollectPod, caches, budget
<1>5. podLog' \in [Pod -> Seq(PodPhases)] /\ ObjectsInv' /\ WorkerInv'
  BY <1>2, <1>3, <1>4, PodMoveSafe
<1>6. TypeOK'
  BY <1>1, <1>4, <1>5 DEF TypeOK
<1> QED BY <1>5, <1>6, IInvParts

\* Watch events move a cache within a history.
LEMMA SyncStep ==
    ASSUME IInv,
           \/ \E j \in Job : SyncJob(j) \/ SyncTemplate(j) \/ Resync(j)
           \/ \E p \in Pod : SyncPod(p)
    PROVE  IInv'
<1>1. TypeOK /\ ObjectsInv /\ WorkerInv
  BY DEF IInv, ObjectsInv, WorkerInv
<1>2. UNCHANGED <<versions, podLog, template, worker, faults, restarts>>
  BY DEF SyncJob, SyncTemplate, Resync, SyncPod, objects, budget
<1>3. /\ jobCache' \in [Job -> Nat \ {0}]
      /\ \A i \in Job : jobCache'[i] <= Len(versions[i])
  <2>1. CASE \E j \in Job : SyncJob(j)
    <3> PICK j \in Job : SyncJob(j)
      BY <2>1
    <3>1. jobCache' = [jobCache EXCEPT ![j] = @ + 1] /\ jobCache[j] < Len(versions[j])
      BY DEF SyncJob
    <3>2. jobCache \in [Job -> Nat \ {0}] /\ versions \in [Job -> Seq(Status)]
      BY <1>1 DEF TypeOK
    <3>3. \A i \in Job : jobCache[i] <= Len(versions[i]) /\ Len(versions[i]) \in Nat
      BY <1>1, <3>2 DEF ObjectsInv, CachesBehind
    <3> QED BY <3>1, <3>2, <3>3
  <2>2. CASE UNCHANGED jobCache
    BY <2>2, <1>1 DEF TypeOK, ObjectsInv, CachesBehind
  <2> QED BY <2>1, <2>2 DEF SyncTemplate, Resync, SyncPod, caches
<1>4. /\ podCache' \in [Pod -> Nat \ {0}]
      /\ \A q \in Pod : podCache'[q] <= Len(podLog[q])
  <2>1. CASE \E p \in Pod : SyncPod(p)
    <3> PICK p \in Pod : SyncPod(p)
      BY <2>1
    <3>1. podCache' = [podCache EXCEPT ![p] = @ + 1] /\ podCache[p] < Len(podLog[p])
      BY DEF SyncPod
    <3>2. podCache \in [Pod -> Nat \ {0}] /\ podLog \in [Pod -> Seq(PodPhases)]
      BY <1>1 DEF TypeOK
    <3>3. \A q \in Pod : podCache[q] <= Len(podLog[q]) /\ Len(podLog[q]) \in Nat
      BY <1>1, <3>2 DEF ObjectsInv, CachesBehind
    <3> QED BY <3>1, <3>2, <3>3
  <2>2. CASE UNCHANGED podCache
    BY <2>2, <1>1 DEF TypeOK, ObjectsInv, CachesBehind
  <2> QED BY <2>1, <2>2 DEF SyncJob, SyncTemplate, Resync, caches
<1>5. queue' \subseteq Job
  <2>1. queue \subseteq Job /\ \A q \in Pod : q[1] \in Job
    BY <1>1 DEF TypeOK, Pod
  <2>2. \E i \in Job : queue' = queue \/ queue' = queue \cup {i}
    BY <2>1 DEF SyncJob, SyncTemplate, Resync, SyncPod
  <2> QED BY <2>1, <2>2
<1>6. templateCache' \in [Job -> {"none", "live", "gone"}]
  BY <1>1 DEF TypeOK, SyncJob, SyncTemplate, Resync, SyncPod, caches
<1>7. TypeOK'
  BY <1>1, <1>2, <1>3, <1>4, <1>5, <1>6 DEF TypeOK
<1>8. ObjectsInv'
  BY <1>1, <1>2, <1>3, <1>4 DEF ObjectsInv, CachesBehind, PodsOnlyOfStartedJobs,
     OnePodPerNode, VerdictIsFinal, Born, PodNow, Phase, JobNow, Latest
<1>9. WorkerInv'
  BY <1>1, <1>2 DEF WorkerInv, WorkerUpdates, WorkerCreates, Born, PodNow, Phase, JobNow, Latest
<1> QED BY <1>7, <1>8, <1>9, IInvParts

\* The handlers decide from the cache: nothing is written yet.
LEMMA ReconcileStep ==
    ASSUME IInv, NEW j \in Job, Reconcile(j)
    PROVE  IInv'
<1>1. TypeOK /\ j \in queue
  BY DEF IInv, Reconcile, ReconcileNothing, ReconcileNew, ReconcileRunning, Takes
<1>2. UNCHANGED <<versions, podLog, template, jobCache, podCache, templateCache, faults, restarts>>
  BY DEF Reconcile, ReconcileNothing, ReconcileNew, ReconcileRunning, objects, caches, budget
<1>3. ObjectsInv'
  BY <1>2, StutterSafe
<1>4. queue' \subseteq Job
  BY <1>1 DEF TypeOK, Reconcile, ReconcileNothing, ReconcileNew, ReconcileRunning,
     Done, Retry, Decides
<1>5. JobSeen(j) \in Status /\ jobCache[j] \in 1 .. Len(versions[j])
  <2>1. /\ versions \in [Job -> Seq(Status)] /\ jobCache \in [Job -> Nat \ {0}]
        /\ jobCache[j] <= Len(versions[j])
    BY DEF IInv, TypeOK, CachesBehind
  <2>2. jobCache[j] \in 1 .. Len(versions[j])
    BY <2>1
  <2> QED BY <2>1, <2>2 DEF JobSeen
<1>6. \/ worker' = Idle
      \/ \E status \in Status :
            /\ Decides(j, status)
            /\ \/ JobSeen(j).phase = "New" /\ status.phase = "Running"
               \/ JobSeen(j).phase = "Running" /\ status.phase \in Terminal
  <2>1. CASE ReconcileNothing(j)
    BY <2>1 DEF ReconcileNothing, Done
  <2>2. CASE ReconcileNew(j)
    BY <2>2, StartedType DEF ReconcileNew, Takes, Retry
  <2>3. CASE ReconcileRunning(j)
    <3> DEFINE missing == [Blank("Failed") EXCEPT !.deleteAfter = TRUE]
    <3>1. missing \in Status /\ missing.phase \in Terminal
      BY DEF Blank, Status, Phases, Terminal
    <3>2. Listed(j) \in SUBSET Pod
      BY DEF Listed
    <3>3. /\ Tally(JobSeen(j), Listed(j)) \in Status
          /\ Tally(JobSeen(j), Listed(j)).phase \in Terminal
      BY <3>2, <1>5, TallyType
    <3> HIDE DEF missing
    <3>4. \/ Decides(j, missing) \/ worker' = Idle
          \/ Decides(j, Tally(JobSeen(j), Listed(j)))
      BY <2>3 DEF ReconcileRunning, Done, missing
    <3>5. JobSeen(j).phase = "Running"
      BY <2>3 DEF ReconcileRunning, Takes
    <3> QED BY <3>1, <3>3, <3>4, <3>5
  <2> QED BY <2>1, <2>2, <2>3 DEF Reconcile
<1>7. CASE worker' = Idle
  <2>1. WorkerInv' /\ worker' \in WorkerType
    BY <1>7, IdleSafe DEF WorkerType
  <2>2. TypeOK'
    BY <2>1, <1>1, <1>2, <1>4 DEF TypeOK, WorkerType
  <2> QED BY <2>1, <2>2, <1>3, IInvParts
<1>8. ASSUME NEW status \in Status, Decides(j, status),
             \/ JobSeen(j).phase = "New" /\ status.phase = "Running"
             \/ JobSeen(j).phase = "Running" /\ status.phase \in Terminal
      PROVE  IInv'
  <2>1. worker' = [pc |-> "update", job |-> j, seen |-> jobCache[j], outcome |-> status,
                   todo |-> {}, waiting |-> {}]
    BY <1>8 DEF Decides, Idle
  <2>2. worker' \in WorkerType
    BY <2>1, <1>5 DEF WorkerType
  <2>3. TypeOK'
    BY <2>2, <1>1, <1>2, <1>4 DEF TypeOK, WorkerType
  <2>4. WorkerUpdates'
    BY <2>1, <1>2, <1>5, <1>8 DEF WorkerUpdates, JobSeen
  <2>5. WorkerCreates'
    BY <2>1 DEF WorkerCreates
  <2> QED BY <2>3, <2>4, <2>5, <1>3, IInvParts DEF WorkerInv
<1> QED BY <1>6, <1>7, <1>8

\* The update the worker attempts is a legal move, if it is accepted.
LEMMA AcceptedIsLegal ==
    ASSUME IInv, NEW j \in Job, worker.pc = "update", worker.job = j,
           UpdateAccepted(j, worker.seen)
    PROVE  /\ LegalMove(j, worker.outcome) /\ worker.outcome \in Status
           /\ worker.outcome.phase = "Running" =>
                  \A p \in Pod : p[1] = j => ~Born(p)
<1>1. JobNow(j) = versions[j][worker.seen]
  BY DEF UpdateAccepted, JobNow, Latest
<1>2. \/ Phase(j) = "New" /\ worker.outcome.phase = "Running"
      \/ Phase(j) = "Running" /\ worker.outcome.phase \in Terminal
  BY <1>1 DEF IInv, WorkerUpdates, Phase
<1>3. worker.outcome \in Status
  BY DEF IInv, TypeOK
<1> QED BY <1>2, <1>3 DEF LegalMove, IInv, PodsOnlyOfStartedJobs, Terminal

\* The status update: accepted, refused, or failed half-way.
LEMMA ProceedStep ==
    ASSUME IInv, NEW j \in Job, Proceed(j)
    PROVE  IInv'
<1>1. TypeOK
  BY DEF IInv
<1>2. UNCHANGED <<template, podLog, jobCache, podCache, templateCache, restarts>>
      /\ faults' \in 0 .. MaxFaults /\ queue' \subseteq Job
  <2>1. UNCHANGED <<template, podLog, jobCache, podCache, templateCache, restarts>>
    BY DEF Proceed, UpdateStatus, UpdateConflicts, UpdateFails, PodsPolled, objects,
           caches, budget
  <2>2. UNCHANGED faults \/ (MayFail /\ faults' = faults + 1)
    BY DEF Proceed, UpdateStatus, UpdateConflicts, UpdateFails, PodsPolled, budget
  <2>3. faults' \in 0 .. MaxFaults
    BY <1>1, <2>2, FaultType
  <2>4. queue' = queue \/ queue' = queue \cup {j}
    BY DEF Proceed, UpdateStatus, UpdateConflicts, UpdateFails, PodsPolled, AfterUpdate,
           Retry
  <2> QED BY <1>1, <2>1, <2>3, <2>4 DEF TypeOK
<1>3. CASE UpdateStatus(j)
  <2>1. /\ LegalMove(j, worker.outcome) /\ worker.outcome \in Status
        /\ worker.outcome.phase = "Running" => \A p \in Pod : p[1] = j => ~Born(p)
    BY <1>3, AcceptedIsLegal DEF UpdateStatus
  <2>2. Write(j, worker.outcome)
    BY <1>3 DEF UpdateStatus
  <2>3. versions' \in [Job -> Seq(Status)] /\ ObjectsInv'
    BY <2>1, <2>2, <1>2, PublishSafe
  <2>4. WorkerInv' /\ worker' \in WorkerType
    <3>1. CASE worker.outcome.phase # "Running"
      BY <3>1, <1>3, IdleSafe DEF UpdateStatus, AfterUpdate, WorkerType
    <3>2. CASE worker.outcome.phase = "Running"
      <4>1. worker' = [pc |-> "pods", job |-> j, seen |-> 0, outcome |-> Blank("absent"),
                       todo |-> Selected, waiting |-> {}]
        BY <3>2, <1>3 DEF UpdateStatus, AfterUpdate, Idle
      <4>2. worker' \in WorkerType
        BY <4>1, SelectedType, BlankType DEF WorkerType, Phases
      <4>3. Phase(j)' = "Running"
        BY <3>2, <2>1, <2>2, <1>1, WriteFacts DEF Phase, TypeOK
      <4>4. \A p \in Pod : p[1] = j => ~Born(p)'
        BY <3>2, <2>1, <1>2 DEF Born, PodNow, Latest
      <4>5. \A n \in worker'.todo, s \in Suffix : ~Born(<<j, n, s>>)'
        BY <4>1, <4>4, SelectedType DEF Pod
      <4>6. WorkerCreates'
        BY <4>1, <4>3, <4>5 DEF WorkerCreates
      <4>7. WorkerUpdates'
        BY <4>1 DEF WorkerUpdates
      <4> QED BY <4>2, <4>6, <4>7 DEF WorkerInv
    <3> QED BY <3>1, <3>2
  <2>5. TypeOK'
    BY <2>3, <2>4, <1>1, <1>2 DEF TypeOK, WorkerType
  <2> QED BY <2>3, <2>4, <2>5, IInvParts
<1>4. CASE UpdateConflicts(j) \/ PodsPolled(j)
  <2>1. worker' = Idle /\ UNCHANGED versions
    BY <1>4 DEF UpdateConflicts, PodsPolled, Retry, objects
  <2>2. WorkerInv' /\ worker' \in WorkerType /\ ObjectsInv'
    BY <2>1, <1>2, IdleSafe, StutterSafe DEF WorkerType
  <2>3. TypeOK'
    BY <2>1, <2>2, <1>1, <1>2 DEF TypeOK, WorkerType
  <2> QED BY <2>2, <2>3, IInvParts
<1>5. CASE UpdateFails(j)
  <2>1. WorkerInv' /\ worker' \in WorkerType
    BY <1>5, IdleSafe DEF UpdateFails, Retry, WorkerType
  <2>2. versions' \in [Job -> Seq(Status)] /\ ObjectsInv'
    <3>1. CASE UNCHANGED versions
      BY <3>1, <1>1, <1>2, StutterSafe DEF TypeOK
    <3>2. CASE UpdateAccepted(j, worker.seen) /\ Write(j, worker.outcome)
      BY <3>2, <1>2, <1>5, AcceptedIsLegal, PublishSafe DEF UpdateFails
    <3> QED BY <3>1, <3>2, <1>5 DEF UpdateFails
  <2>3. TypeOK'
    BY <2>1, <2>2, <1>1, <1>2 DEF TypeOK, WorkerType
  <2> QED BY <2>1, <2>2, <2>3, IInvParts
<1> QED BY <1>3, <1>4, <1>5 DEF Proceed

\* Pods are created on nodes still to do, and then polled.
LEMMA ProceedPodStep ==
    ASSUME IInv, NEW p \in Pod, ProceedPod(p)
    PROVE  IInv'
<1>1. TypeOK /\ WorkerInv
  BY DEF IInv, WorkerInv
<1>2. p[1] \in Job /\ p[2] \in Node
  BY DEF Pod
<1>3. UNCHANGED <<versions, template, jobCache, podCache, templateCache, restarts>>
      /\ faults' \in 0 .. MaxFaults /\ queue' \subseteq Job
  <2>1. UNCHANGED <<versions, template, jobCache, podCache, templateCache, restarts>>
    BY DEF ProceedPod, CreatePod, CreatePodFails, StopPolling, objects, caches, budget
  <2>2. UNCHANGED faults \/ (MayFail /\ faults' = faults + 1)
    BY DEF ProceedPod, CreatePod, CreatePodFails, StopPolling, budget
  <2>3. faults' \in 0 .. MaxFaults
    BY <1>1, <2>2, FaultType
  <2>4. queue' = queue \/ queue' = queue \cup {p[1]}
    BY DEF ProceedPod, CreatePod, CreatePodFails, StopPolling, Retry
  <2> QED BY <1>1, <1>2, <2>1, <2>3, <2>4 DEF TypeOK
<1>4. CASE CreatePod(p)
  <2>1. /\ podLog' \in [Pod -> Seq(PodPhases)] /\ ObjectsInv'
        /\ \A q \in Pod : q[2] # p[2] => (Born(q)' <=> Born(q))
    BY <1>3, <1>4, CreateSafe DEF CreatePod
  <2>2. worker' = [worker EXCEPT !.todo = @ \ {p[2]}, !.waiting = @ \cup {p}]
    BY <1>4 DEF CreatePod
  <2>3. worker \in WorkerType
    BY <1>1 DEF TypeOK, WorkerType
  <2>4. /\ worker' \in WorkerType /\ worker'.pc = worker.pc /\ worker'.job = worker.job
        /\ worker'.todo = worker.todo \ {p[2]} /\ worker.todo \subseteq Node
    BY <2>2, <2>3 DEF WorkerType
  <2>5. worker.pc = "pods"
    BY <1>4 DEF CreatePod
  <2>6. \A i \in Job : Phase(i)' = Phase(i)
    BY <1>3 DEF Phase, JobNow, Latest
  <2>7. \A n \in worker'.todo, s \in Suffix : ~Born(<<worker.job, n, s>>)'
    BY <2>1, <2>4, <2>5, <1>1 DEF WorkerInv, WorkerCreates, Pod
  <2>8. WorkerInv'
    BY <2>4, <2>5, <2>6, <2>7, <1>1 DEF WorkerInv, WorkerUpdates, WorkerCreates
  <2>9. TypeOK'
    BY <2>1, <2>4, <1>1, <1>3 DEF TypeOK, WorkerType
  <2> QED BY <2>1, <2>8, <2>9, IInvParts
<1>5. CASE CreatePodFails(p)
  <2>1. podLog' \in [Pod -> Seq(PodPhases)] /\ ObjectsInv'
    <3>1. CASE UNCHANGED podLog
      BY <3>1, <1>1, <1>3, StutterSafe DEF TypeOK
    <3>2. CASE Creates(p)
      BY <3>2, <1>3, <1>5, CreateSafe DEF CreatePodFails
    <3> QED BY <3>1, <3>2, <1>5 DEF CreatePodFails
  <2>2. WorkerInv' /\ worker' \in WorkerType
    BY <1>5, IdleSafe DEF CreatePodFails, Retry, WorkerType
  <2>3. TypeOK'
    BY <2>1, <2>2, <1>1, <1>3 DEF TypeOK, WorkerType
  <2> QED BY <2>1, <2>2, <2>3, IInvParts
<1>6. CASE StopPolling(p)
  <2>1. UNCHANGED podLog /\ worker' = [worker EXCEPT !.waiting = @ \ {p}]
    BY <1>6 DEF StopPolling, objects
  <2>2. worker \in WorkerType
    BY <1>1 DEF TypeOK, WorkerType
  <2>3. /\ worker' \in WorkerType /\ worker'.pc = worker.pc /\ worker'.job = worker.job
        /\ worker'.todo = worker.todo /\ worker'.seen = worker.seen
        /\ worker'.outcome = worker.outcome
    BY <2>1, <2>2 DEF WorkerType
  <2>4. ObjectsInv'
    BY <2>1, <1>3, StutterSafe
  <2>5. WorkerInv'
    BY <2>1, <2>3, <1>1, <1>3
       DEF WorkerInv, WorkerUpdates, WorkerCreates, Born, PodNow, Phase, JobNow, Latest
  <2>6. TypeOK'
    BY <2>1, <2>3, <1>1, <1>3 DEF TypeOK, WorkerType
  <2> QED BY <2>4, <2>5, <2>6, IInvParts
<1> QED BY <1>4, <1>5, <1>6 DEF ProceedPod

\* A restart catches the caches up and drops the worker's progress.
LEMMA RestartStep ==
    ASSUME IInv, Restart
    PROVE  IInv'
<1>1. TypeOK /\ ObjectsInv
  BY DEF IInv, ObjectsInv
<1>2. UNCHANGED <<versions, podLog, faults>> /\ worker' = Idle
  BY DEF Restart
<1>3. WorkerInv' /\ worker' \in WorkerType
  BY <1>2, IdleSafe DEF WorkerType
<1>4. /\ \A j \in Job : Len(versions[j]) \in Nat \ {0}
      /\ \A p \in Pod : Len(podLog[p]) \in Nat \ {0}
  BY <1>1 DEF TypeOK, ObjectsInv, CachesBehind
<1>5. /\ jobCache' = [j \in Job |-> Len(versions[j])]
      /\ podCache' = [p \in Pod |-> Len(podLog[p])]
  BY DEF Restart
<1>6. /\ jobCache' \in [Job -> Nat \ {0}] /\ podCache' \in [Pod -> Nat \ {0}]
      /\ CachesBehind'
  BY <1>2, <1>4, <1>5 DEF CachesBehind
<1>7. ObjectsInv'
  <2>1. \A p \in Pod : Born(p)' <=> Born(p)
    BY <1>2 DEF Born, PodNow, Latest
  <2>2. \A j \in Job : Phase(j)' = Phase(j)
    BY <1>2 DEF Phase, JobNow, Latest
  <2>3. PodsOnlyOfStartedJobs' /\ OnePodPerNode'
    BY <1>1, <2>1, <2>2 DEF ObjectsInv, PodsOnlyOfStartedJobs, OnePodPerNode, Pod
  <2>4. VerdictIsFinal'
    BY <1>1, <1>2 DEF ObjectsInv, VerdictIsFinal
  <2> QED BY <1>6, <2>3, <2>4 DEF ObjectsInv
<1>8. /\ template' \in [Job -> {"none", "live", "orphan", "gone"}]
      /\ templateCache' \in [Job -> {"none", "live", "gone"}]
  <2>1. UNCHANGED template \/ template' = [j \in Job |-> IF template[j] = "live" THEN "orphan"
                                                                                ELSE template[j]]
    BY DEF Restart
  <2>2. template' \in [Job -> {"none", "live", "orphan", "gone"}]
    BY <1>1, <2>1 DEF TypeOK
  <2>3. templateCache' \in [Job -> {"none", "live", "gone"}]
    BY <1>1 DEF TypeOK, Restart
  <2> QED BY <2>2, <2>3
<1>9. queue' \subseteq Job /\ restarts' \in 0 .. MaxRestarts
  <2>1. queue' \subseteq Job
    BY <1>1 DEF TypeOK, Restart, Pod
  <2>2. restarts' \in 0 .. MaxRestarts
    BY <1>1, ImageJobAssumption DEF TypeOK, Restart
  <2> QED BY <2>1, <2>2
<1>10. TypeOK'
  BY <1>1, <1>2, <1>3, <1>6, <1>8, <1>9 DEF TypeOK, WorkerType
<1> QED BY <1>3, <1>7, <1>10, IInvParts

-----------------------------------------------------------------------------
(* The theorems.                                                           *)

\* The invariant holds initially.
LEMMA InitIInv == Init => IInv
<1> SUFFICES ASSUME Init PROVE IInv
  OBVIOUS
<1>1. /\ \A j \in Job : versions[j] = <<Blank("absent")>>
      /\ \A p \in Pod : podLog[p] = <<"absent">>
  BY DEF Init
<1>2. Blank("absent") \in Status /\ Blank("absent").phase = "absent"
  BY BlankType DEF Phases
<1>3. /\ <<Blank("absent")>> \in Seq(Status) /\ Len(<<Blank("absent")>>) = 1
      /\ <<"absent">> \in Seq(PodPhases) /\ Len(<<"absent">>) = 1
  BY <1>2 DEF PodPhases
<1>4. \A p \in Pod : ~Born(p)
  BY <1>1, <1>3 DEF Born, PodNow, Latest
<1>5. TypeOK
  BY <1>2, <1>3, ImageJobAssumption DEF Init, TypeOK, Idle
<1>6. CachesBehind
  BY <1>3 DEF Init, CachesBehind
<1>7. WorkerUpdates /\ WorkerCreates
  BY DEF Init, WorkerUpdates, WorkerCreates, Idle
<1>8. PodsOnlyOfStartedJobs /\ OnePodPerNode
  BY <1>4 DEF PodsOnlyOfStartedJobs, OnePodPerNode, Pod
<1>9. VerdictIsFinal
  BY <1>1, <1>3 DEF VerdictIsFinal
<1> QED BY <1>5, <1>6, <1>7, <1>8, <1>9 DEF IInv

\* Every step keeps it.
LEMMA NextIInv == IInv /\ [Next]_vars => IInv'
<1> SUFFICES ASSUME IInv, [Next]_vars PROVE IInv'
  OBVIOUS
<1>1. CASE UNCHANGED vars
  <2>1. ObjectsInv' /\ WorkerInv'
    BY <1>1, StutterSafe DEF vars, objects, caches
  <2>2. TypeOK'
    BY <1>1 DEF IInv, TypeOK, vars, objects, caches, budget
  <2> QED BY <2>1, <2>2, IInvParts
<1>2. CASE Next
  BY <1>2, OwnerStep, ClusterStep, SyncStep, ReconcileStep, ProceedStep,
     ProceedPodStep, RestartStep DEF Next
<1> QED BY <1>1, <1>2

\* The invariant holds in every behaviour of the controller.
THEOREM Inductive == Spec => []IInv
BY InitIInv, NextIInv, PTL DEF Spec

\* Every variable keeps its type: the counters of a status are numbers, and a
\* job is queued under the name of a job.
THEOREM TypeCorrect == Spec => []TypeOK
<1>1. IInv => TypeOK
  BY DEF IInv
<1> QED BY <1>1, Inductive, PTL

\* However often a job is reconciled, from whatever cache, a node gets at most
\* one pod of it.
THEOREM AtMostOnePodPerNode == Spec => []OnePodPerNode
<1>1. IInv => OnePodPerNode
  BY DEF IInv
<1> QED BY <1>1, Inductive, PTL

\* The pods of a job are created after its status says it is running.
THEOREM PodsFollowStatus == Spec => []PodsOnlyOfStartedJobs
<1>1. IInv => PodsOnlyOfStartedJobs
  BY DEF IInv
<1> QED BY <1>1, Inductive, PTL

\* No later status update takes a verdict back.
THEOREM VerdictStands == Spec => []VerdictIsFinal
<1>1. IInv => VerdictIsFinal
  BY DEF IInv
<1> QED BY <1>1, Inductive, PTL

=============================================================================
