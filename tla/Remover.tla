------------------------------ MODULE Remover ------------------------------
(***************************************************************************)
(* The removers of one node (pkg/remover/helpers.go): each lists images    *)
(* and containers, then deletes the images it was given, one call at a     *)
(* time, while the kubelet pulls images and starts and stops containers.   *)
(* A manual and a collector pod may be at work side by side.               *)
(***************************************************************************)
EXTENDS NodeImages, Sequences

CONSTANTS Run,          \* the removers
          TargetLists,  \* the lists a remover may be given
          Star          \* the entry "*" of a list

ASSUME RemoverAssumption ==
    /\ Star \notin Ref
    /\ TargetLists \subseteq Seq(Ref \cup {Star})

VARIABLES onNode,      \* images on the node
          containers,  \* images that some container was created from
          run          \* run[r]: the state of remover r

vars == <<onNode, containers, run>>

\* erased, spared and late are history: the images r has deleted, those whose
\* deletion failed while pruning, and those that a container was created from
\* after r listed the containers.
RunState == [pc : {"start", "listing", "targets", "prune", "done", "failed"},
             targets : Seq(Ref \cup {Star}),
             listed : SUBSET Image,
             containers : SUBSET Image,
             at : Nat \ {0},
             prune : BOOLEAN,
             left : SUBSET Ref,
             deleted : SUBSET Ref,
             removed : Nat,
             erased : SUBSET Image,
             spared : SUBSET Image,
             late : SUBSET Image]

Fresh(targets) ==
    [pc |-> "start", targets |-> targets, listed |-> {}, containers |-> {}, at |-> 1,
     prune |-> FALSE, left |-> {}, deleted |-> {}, removed |-> 0,
     erased |-> {}, spared |-> {}, late |-> {}]

-----------------------------------------------------------------------------
(* The kubelet and the container runtime.                                  *)

Pull(i) ==
    /\ i \notin onNode
    /\ onNode' = onNode \cup {i}
    /\ UNCHANGED <<containers, run>>

CreateContainer(i) ==
    /\ i \in onNode \ containers
    /\ containers' = containers \cup {i}
    /\ run' = [r \in Run |->
                  IF run[r].pc \in {"targets", "prune"}
                  THEN [run[r] EXCEPT !.late = @ \cup {i}] ELSE run[r]]
    /\ UNCHANGED onNode

RemoveContainers(i) ==
    /\ i \in containers
    /\ containers' = containers \ {i}
    /\ UNCHANGED <<onNode, run>>

-----------------------------------------------------------------------------
(* removeImages.                                                           *)

ListImages(r) ==
    /\ run[r].pc = "start"
    /\ run' = [run EXCEPT ![r].pc = "listing", ![r].listed = onNode]
    /\ UNCHANGED <<onNode, containers>>

ListContainers(r) ==
    /\ run[r].pc = "listing"
    /\ run' = [run EXCEPT ![r].pc = "targets", ![r].containers = containers]
    /\ UNCHANGED <<onNode, containers>>

\* Mutant: the containers are listed before the images.
ContainersFirst(r) ==
    \/ /\ run[r].pc = "start"
       /\ run' = [run EXCEPT ![r].pc = "listing", ![r].containers = containers]
       /\ UNCHANGED <<onNode, containers>>
    \/ /\ run[r].pc = "listing"
       /\ run' = [run EXCEPT ![r].pc = "targets", ![r].listed = onNode]
       /\ UNCHANGED <<onNode, containers>>

Lists(r) == ListImages(r) \/ ListContainers(r)

\* A listing fails and the remover exits, or its pod is deleted.
Stop(r) ==
    /\ run[r].pc \notin {"done", "failed"}
    /\ run' = [run EXCEPT ![r].pc = "failed"]
    /\ UNCHANGED <<onNode, containers>>

Unused(r) == NonRunning(run[r].listed, run[r].containers)
UnusedRefs(r) == NonRunningRefs(run[r].listed, run[r].containers)

Target(r) == run[r].targets[run[r].at]
AtTarget(r) == run[r].pc = "targets" /\ run[r].at <= Len(run[r].targets)

\* Mutant: every entry is remembered, "*" too.
PassTargetRemembers(r) ==
    /\ AtTarget(r)
    /\ \/ Target(r) = Star
       \/ Target(r) \notin UnusedRefs(r)
       \/ IsExcluded(Target(r), run[r].listed)
    /\ run' = [run EXCEPT ![r].at = @ + 1, ![r].deleted = @ \cup {Target(r)},
                          ![r].prune = IF Target(r) = Star THEN TRUE ELSE @]
    /\ UNCHANGED <<onNode, containers>>

\* The entries that lead to no call: "*", an image in use, one that is not on
\* the node or was not when the images were listed, one that is excluded.
PassTarget(r) ==
    /\ AtTarget(r)
    /\ \/ Target(r) = Star
       \/ Target(r) \notin UnusedRefs(r)
       \/ IsExcluded(Target(r), run[r].listed)
    /\ run' = [run EXCEPT ![r].at = @ + 1,
                          ![r].prune = IF Target(r) = Star THEN TRUE ELSE @]
    /\ UNCHANGED <<onNode, containers>>

CallsFor(r, i) ==
    /\ AtTarget(r)
    /\ i \in Unused(r) /\ Target(r) \in KnownAs(i)
    /\ ~IsExcluded(Target(r), run[r].listed)

\* Mutant: the deletion is not remembered.
TargetForgets(r, i) ==
    /\ CallsFor(r, i)
    /\ onNode' = onNode \ {i}
    /\ run' = [run EXCEPT ![r].at = @ + 1,
                          ![r].removed = @ + 1,
                          ![r].erased = @ \cup {i}]
    /\ UNCHANGED containers

\* The runtime deletes the image whether or not a container uses it, and says
\* so of an image that was not there.
DeleteTarget(r, i) ==
    /\ CallsFor(r, i)
    /\ onNode' = onNode \ {i}
    /\ run' = [run EXCEPT ![r].at = @ + 1,
                          ![r].deleted = @ \cup {Target(r)},
                          ![r].removed = @ + 1,
                          ![r].erased = @ \cup {i}]
    /\ UNCHANGED containers

\* Mutant: a failed deletion is remembered as done.
TargetFailsForGood(r, i) ==
    /\ CallsFor(r, i)
    /\ run' = [run EXCEPT ![r].at = @ + 1, ![r].deleted = @ \cup {Target(r)}]
    /\ UNCHANGED <<onNode, containers>>

\* The error is logged.
TargetFails(r, i) ==
    /\ CallsFor(r, i)
    /\ run' = [run EXCEPT ![r].at = @ + 1]
    /\ UNCHANGED <<onNode, containers>>

\* Every key of nonRunningImages will be visited, in an order of the map's.
TargetsDone(r) ==
    /\ run[r].pc = "targets" /\ run[r].at > Len(run[r].targets)
    /\ run' = IF run[r].prune
              THEN [run EXCEPT ![r].pc = "prune", ![r].left = UnusedRefs(r)]
              ELSE [run EXCEPT ![r].pc = "done"]
    /\ UNCHANGED <<onNode, containers>>

\* The key ref of the map leads to image i.
Visits(r, ref, i) ==
    /\ run[r].pc = "prune"
    /\ ref \in run[r].left
    /\ i \in Unused(r) /\ ref \in KnownAs(i)

Skipped(r, i) == i \in run[r].deleted \/ IsExcluded(i, run[r].listed)

PrunePasses(r, ref, i) ==
    /\ Visits(r, ref, i) /\ Skipped(r, i)
    /\ run' = [run EXCEPT ![r].left = @ \ {ref}]
    /\ UNCHANGED <<onNode, containers>>

\* Mutant: the deletion is not remembered.
PruneForgets(r, ref, i) ==
    /\ Visits(r, ref, i) /\ ~Skipped(r, i)
    /\ onNode' = onNode \ {i}
    /\ run' = [run EXCEPT ![r].left = @ \ {ref},
                          ![r].removed = @ + 1,
                          ![r].erased = @ \cup {i}]
    /\ UNCHANGED containers

PruneDeletes(r, ref, i) ==
    /\ Visits(r, ref, i) /\ ~Skipped(r, i)
    /\ onNode' = onNode \ {i}
    /\ run' = [run EXCEPT ![r].left = @ \ {ref},
                          ![r].deleted = @ \cup {i},
                          ![r].removed = @ + 1,
                          ![r].erased = @ \cup {i}]
    /\ UNCHANGED containers

PruneFails(r, ref, i) ==
    /\ Visits(r, ref, i) /\ ~Skipped(r, i)
    /\ run' = [run EXCEPT ![r].left = @ \ {ref}, ![r].spared = @ \cup {i}]
    /\ UNCHANGED <<onNode, containers>>

PruneDone(r) ==
    /\ run[r].pc = "prune" /\ run[r].left = {}
    /\ run' = [run EXCEPT ![r].pc = "done"]
    /\ UNCHANGED <<onNode, containers>>

-----------------------------------------------------------------------------
Init ==
    /\ onNode \in SUBSET Image
    /\ containers \in SUBSET onNode
    /\ \E given \in [Run -> TargetLists] : run = [r \in Run |-> Fresh(given[r])]

Runtime(i) == Pull(i) \/ CreateContainer(i) \/ RemoveContainers(i)

Removes(r, i) == \/ DeleteTarget(r, i) \/ TargetFails(r, i)
                 \/ \E ref \in Ref : \/ PrunePasses(r, ref, i)
                                     \/ PruneDeletes(r, ref, i)
                                     \/ PruneFails(r, ref, i)

Proceeds(r) == Lists(r) \/ PassTarget(r) \/ TargetsDone(r) \/ PruneDone(r)

Next == \/ \E i \in Image : Runtime(i)
        \/ \E r \in Run : Proceeds(r) \/ Stop(r) \/ \E i \in Image : Removes(r, i)

Spec == Init /\ [][Next]_vars

-----------------------------------------------------------------------------
(* Properties.                                                             *)

\* The type invariant of the node and its removers.
TypeOK ==
    /\ onNode \in SUBSET Image
    /\ containers \in SUBSET Image
    /\ run \in [Run -> RunState]

\* An image that a container uses is deleted only if the container was created
\* after the remover had listed the containers: no image in use slips between
\* the two listings, or through one of its names or a second remover.
InUseIsSpared ==
    [][\A r \in Run, i \in Image :
          i \in containers /\ i \in run[r].erased' \ run[r].erased => i \in run[r].late]_vars

\* Lists made by the collector or the scanner, and "*", name images by ID.
ByID(targets) == \A n \in 1 .. Len(targets) : targets[n] \in Image \cup {Star}

\* A remover that is given IDs never deletes an image that is excluded under
\* its ID, a name or a digest, whichever phase comes across it.
ExcludedIsKept ==
    \A r \in Run : ByID(run[r].targets) =>
        \A i \in run[r].erased : KnownAs(i) \cap Excluded = {}

\* Pruning leaves no image behind: what was listed and not in use is deleted,
\* is excluded, or was tried by the prune itself - a failure to delete it as a
\* target, just before, does not count.
PruneIsComplete ==
    \A r \in Run :
        run[r].pc = "done" /\ (\E n \in 1 .. Len(run[r].targets) : run[r].targets[n] = Star) =>
            \A i \in Unused(r) : \/ i \in run[r].erased \cup run[r].spared
                                 \/ KnownAs(i) \cap Excluded # {}

Distinct(targets) ==
    \A m, n \in 1 .. Len(targets) : m # n /\ targets[m] = targets[n] => targets[m] = Star

\* The count reported for a list of distinct IDs is the number of images
\* deleted, though the prune meets an image once per name and digest, and
\* again after it was deleted as a target.
CountIsExact ==
    \A r \in Run : ByID(run[r].targets) /\ Distinct(run[r].targets) =>
        run[r].removed = Cardinality(run[r].erased)

\* What the documentation says of every list: an excluded image is not deleted.
NothingExcludedIsErased ==
    \A r \in Run : \A i \in run[r].erased : KnownAs(i) \cap Excluded = {}
=============================================================================
