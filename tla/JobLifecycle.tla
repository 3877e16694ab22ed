---------------------------- MODULE JobLifecycle ----------------------------
(***************************************************************************)
(* What the imagejob controller promises the controllers that own jobs     *)
(* (imagelist and imagecollector), with no informer, queue or retry:       *)
(*                                                                         *)
(*  - a job starts once, and pods are placed only after it started;        *)
(*  - a node gets at most one pod of a job;                                *)
(*  - a job finishes once, and it finishes "Completed" only if the pod of  *)
(*    every selected node succeeded, unless the success ratio is zero or   *)
(*    there has been another job of its type;                              *)
(*  - a finished job keeps its verdict until it is deleted.                *)
(*                                                                         *)
(* ImageJob.tla is shown to implement this module.                         *)
(***************************************************************************)
EXTENDS Naturals

CONSTANTS Job,       \* the ImageJob objects ever created
          Manual,    \* those of an ImageList; the others are the collector's
          Node,      \* the nodes of the cluster
          Selected,  \* the nodes the node filter selects
          RatioNum   \* the numerator of the success ratio

VARIABLES phase,     \* phase[j]: the job's phase, "absent" before, "gone" after
          placed,    \* placed[<<j, n>>]: pods created for job j on node n
          succeeded  \* the <<j, n>> on which a pod of j succeeded

vars == <<phase, placed, succeeded>>

Init == /\ phase = [j \in Job |-> "absent"]
        /\ placed = [x \in Job \X Node |-> 0]
        /\ succeeded = {}

Create(j) == /\ phase[j] = "absent"
             /\ phase' = [phase EXCEPT ![j] = "New"]
             /\ UNCHANGED <<placed, succeeded>>

Start(j) == /\ phase[j] = "New"
            /\ phase' = [phase EXCEPT ![j] = "Running"]
            /\ UNCHANGED <<placed, succeeded>>

\* A job may be deleted while its pods are being created.
Place(j, n) == /\ phase[j] \in {"Running", "gone"}
               /\ n \in Selected
               /\ placed[<<j, n>>] = 0
               /\ placed' = [placed EXCEPT ![<<j, n>>] = 1]
               /\ UNCHANGED <<phase, succeeded>>

Succeed(j, n) == /\ placed[<<j, n>>] = 1
                 /\ succeeded' = succeeded \cup {<<j, n>>}
                 /\ UNCHANGED <<phase, placed>>

\* No other job of j's type was ever created.
Alone(j) == \A i \in Job \ {j} : (i \in Manual <=> j \in Manual) => phase[i] = "absent"

Complete(j) == /\ phase[j] = "Running"
               /\ RatioNum > 0 /\ Alone(j) => {j} \X Selected \subseteq succeeded
               /\ phase' = [phase EXCEPT ![j] = "Completed"]
               /\ UNCHANGED <<placed, succeeded>>

Fail(j) == /\ phase[j] = "Running"
           /\ phase' = [phase EXCEPT ![j] = "Failed"]
           /\ UNCHANGED <<placed, succeeded>>

Delete(j) == /\ phase[j] \notin {"absent", "gone"}
             /\ phase' = [phase EXCEPT ![j] = "gone"]
             /\ UNCHANGED <<placed, succeeded>>

Next == \E j \in Job :
            \/ Create(j) \/ Start(j) \/ Complete(j) \/ Fail(j) \/ Delete(j)
            \/ \E n \in Node : Place(j, n) \/ Succeed(j, n)

Spec == Init /\ [][Next]_vars
=============================================================================
