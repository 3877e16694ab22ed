--------------------------- MODULE RemoverProofs ---------------------------
(***************************************************************************)
(* The removers of a node are correct for every node, every set of         *)
(* removers and every list.  The invariant speaks of one remover at a      *)
(* time: how far it is in its list, what it remembers of what it deleted,  *)
(* and that what it has still to visit covers what it has not dealt with.  *)
(***************************************************************************)
EXTENDS Remover, FiniteSetTheorems, TLAPS

Hit(i) == KnownAs(i) \cap Excluded # {}
UnusedIn(s) == NonRunning(s.listed, s.containers)

\* The position in the list, and the entries "*" met so far.
Position(s) ==
    /\ s.at <= Len(s.targets) + 1
    /\ s.pc \in {"prune", "done"} => s.at = Len(s.targets) + 1
    /\ s.prune <=> \E n \in 1 .. s.at - 1 : s.targets[n] = Star

\* What is remembered as deleted was; a list by ID remembers all of it.
Memory(s) ==
    /\ \A i \in Image : i \in s.deleted => i \in s.erased
    /\ ByID(s.targets) => s.erased \subseteq s.deleted

\* Until the prune, what a list by ID has deleted are entries already passed.
Passed(s) ==
    s.pc \in {"start", "listing", "targets"} /\ ByID(s.targets) =>
        \A i \in s.erased : \E n \in 1 .. s.at - 1 : s.targets[n] = i

\* The prune has dealt with what it need not visit any more.
Visited(s) ==
    /\ s.pc \in {"prune", "done"} /\ s.prune =>
           \A i \in UnusedIn(s) : i \in s.left \cup s.erased \cup s.spared \/ Hit(i)
    /\ s.pc = "done" /\ s.prune => s.left = {}

Kept(s) == ByID(s.targets) => \A i \in s.erased : ~Hit(i)

Counted(s) == ByID(s.targets) /\ Distinct(s.targets) => s.removed = Cardinality(s.erased)

Good(s) == /\ Position(s) /\ Memory(s) /\ Passed(s)
           /\ Visited(s) /\ Kept(s) /\ Counted(s)

\* Containers that a remover does not know of are recent.
Late(s) == s.pc \in {"targets", "prune"} => containers \subseteq s.containers \cup s.late

IInv == /\ TypeOK
        /\ \A r \in Run : Good(run[r]) /\ Late(run[r])

-----------------------------------------------------------------------------
(* Lists and references.                                                   *)

\* An image ID denotes one image, itself.
LEMMA IDsDenote == \A i, j \in Image : j \in KnownAs(i) => j = i
BY NodeImagesAssumption DEF KnownAs

\* A non-running image is one of the keys of nonRunningImages.
LEMMA UnusedIsKey ==
    ASSUME NEW listed, NEW used
    PROVE  NonRunning(listed, used) \subseteq NonRunningRefs(listed, used)
BY DEF NonRunning, NonRunningRefs, KnownAs

\* The keys are references.
LEMMA KeysAreRefs ==
    ASSUME NEW listed \in SUBSET Image, NEW used
    PROVE  NonRunningRefs(listed, used) \subseteq Ref
BY NodeImagesAssumption DEF NonRunning, NonRunningRefs, KnownAs, Ref

\* The ID of a listed image is excluded when any of its names is.
LEMMA ExcludedIsHit ==
    ASSUME NEW listed \in SUBSET Image, NEW i \in listed
    PROVE  IsExcluded(i, listed) <=> Hit(i)
BY DEF IsExcluded, Hit, KnownAs

\* Adding an image to those deleted counts it once.
LEMMA OneMore ==
    ASSUME NEW S \in SUBSET Image, NEW i \in Image, i \notin S
    PROVE  Cardinality(S \cup {i}) = Cardinality(S) + 1
<1>1. IsFiniteSet(S)
  BY NodeImagesAssumption, FS_Subset
<1> QED BY <1>1, FS_AddElement

-----------------------------------------------------------------------------
(* The steps of one remover.                                               *)

\* A step of remover r that leaves the containers alone and r in a good state.
LEMMA StepSafe ==
    ASSUME IInv, NEW r \in Run, NEW s \in RunState, run' = [run EXCEPT ![r] = s],
           Good(s), Late(s), onNode' \in SUBSET Image, UNCHANGED containers
    PROVE  IInv'
BY DEF IInv, TypeOK, Late

\* Listing.
LEMMA ListsStep ==
    ASSUME IInv, NEW r \in Run, Lists(r)
    PROVE  IInv'
<1> DEFINE t == run[r]
<1>1. /\ onNode \in SUBSET Image /\ containers \in SUBSET Image
      /\ run \in [Run -> RunState] /\ t \in RunState /\ Good(t)
  BY DEF IInv, TypeOK
<1>2. UNCHANGED <<onNode, containers>>
  BY DEF Lists, ListImages, ListContainers
<1>3. CASE ListImages(r)
  <2> DEFINE s == [t EXCEPT !.pc = "listing", !.listed = onNode]
  <2>1. run' = [run EXCEPT ![r] = s]
    BY <1>1, <1>3 DEF ListImages
  <2>2. s \in RunState
    BY <1>1 DEF RunState
  <2>3. /\ s.pc = "listing" /\ t.pc = "start" /\ s.targets = t.targets /\ s.at = t.at
        /\ s.prune = t.prune /\ s.deleted = t.deleted /\ s.erased = t.erased
        /\ s.removed = t.removed
    BY <1>1, <1>3 DEF RunState, ListImages
  <2> HIDE DEF s, t
  <2>4. Good(s) /\ Late(s)
    BY <1>1, <2>3 DEF Good, Position, Memory, Passed, Visited, Kept, Counted, Late
  <2> QED BY <1>1, <1>2, <2>1, <2>2, <2>4, StepSafe
<1>4. CASE ListContainers(r)
  <2> DEFINE s == [t EXCEPT !.pc = "targets", !.containers = containers]
  <2>1. run' = [run EXCEPT ![r] = s]
    BY <1>1, <1>4 DEF ListContainers
  <2>2. s \in RunState
    BY <1>1 DEF RunState
  <2>3. /\ s.pc = "targets" /\ t.pc = "listing" /\ s.targets = t.targets /\ s.at = t.at
        /\ s.prune = t.prune /\ s.deleted = t.deleted /\ s.erased = t.erased
        /\ s.removed = t.removed /\ s.containers = containers
    BY <1>1, <1>4 DEF RunState, ListContainers
  <2> HIDE DEF s, t
  <2>4. Good(s) /\ Late(s)
    BY <1>1, <2>3 DEF Good, Position, Memory, Passed, Visited, Kept, Counted, Late
  <2> QED BY <1>1, <1>2, <2>1, <2>2, <2>4, StepSafe
<1> QED BY <1>3, <1>4 DEF Lists

\* The remover exits.
LEMMA StopStep ==
    ASSUME IInv, NEW r \in Run, Stop(r)
    PROVE  IInv'
<1> DEFINE t == run[r]
           s == [t EXCEPT !.pc = "failed"]
<1>1. /\ onNode \in SUBSET Image /\ run \in [Run -> RunState] /\ t \in RunState /\ Good(t)
      /\ UNCHANGED <<onNode, containers>> /\ run' = [run EXCEPT ![r] = s]
  BY DEF IInv, TypeOK, Stop
<1>2. s \in RunState
  BY <1>1 DEF RunState
<1>3. /\ s.pc = "failed" /\ s.targets = t.targets /\ s.at = t.at /\ s.prune = t.prune
      /\ s.deleted = t.deleted /\ s.erased = t.erased /\ s.removed = t.removed
  BY <1>1 DEF RunState
<1> HIDE DEF s, t
<1>4. Good(s) /\ Late(s)
  BY <1>1, <1>3 DEF Good, Position, Memory, Passed, Visited, Kept, Counted, Late
<1> QED BY <1>1, <1>2, <1>4, StepSafe

\* An entry that leads to no call.
LEMMA PassTargetStep ==
    ASSUME IInv, NEW r \in Run, PassTarget(r)
    PROVE  IInv'
<1> DEFINE t == run[r]
           star == t.targets[t.at] = Star
           s == [t EXCEPT !.at = t.at + 1, !.prune = IF star THEN TRUE ELSE t.prune]
<1>1. /\ onNode \in SUBSET Image /\ run \in [Run -> RunState] /\ t \in RunState
      /\ Good(t) /\ Late(t) /\ UNCHANGED <<onNode, containers>>
  BY DEF IInv, TypeOK, PassTarget
<1>2. run' = [run EXCEPT ![r] = s]
  BY <1>1 DEF PassTarget, Target
<1>3. /\ t.pc = "targets" /\ t.at \in 1 .. Len(t.targets)
      /\ Len(t.targets) \in Nat
  BY <1>1 DEF PassTarget, AtTarget, RunState
<1>4. s \in RunState
  <2>1. t.at + 1 \in Nat \ {0} /\ t.removed + 1 \in Nat
    BY <1>1, <1>3 DEF RunState
  <2> QED BY <2>1, <1>1, <1>3 DEF RunState
<1>5. /\ s.pc = "targets" /\ s.targets = t.targets /\ s.at = t.at + 1
      /\ s.prune = IF star THEN TRUE ELSE t.prune
      /\ s.deleted = t.deleted /\ s.erased = t.erased /\ s.removed = t.removed
      /\ s.containers = t.containers /\ s.late = t.late
  BY <1>1, <1>3 DEF RunState
<1> HIDE DEF s, t
<1>6. Position(s)
  <2>1. t.prune <=> \E n \in 1 .. t.at - 1 : t.targets[n] = Star
    BY <1>1 DEF Good, Position
  <2>2. s.prune <=> \E n \in 1 .. s.at - 1 : s.targets[n] = Star
    BY <2>1, <1>3, <1>5
  <2> QED BY <2>2, <1>3, <1>5 DEF Position
<1>7. Passed(s)
  BY <1>1, <1>3, <1>5 DEF Good, Passed
<1>8. Memory(s) /\ Kept(s) /\ Counted(s)
  BY <1>1, <1>5 DEF Good, Memory, Kept, Counted
<1>9. Visited(s) /\ Late(s)
  BY <1>1, <1>3, <1>5 DEF Good, Visited, Late
<1> QED BY <1>1, <1>2, <1>4, <1>6, <1>7, <1>8, <1>9, StepSafe DEF Good

\* What a call for a target says of the target.
LEMMA CallFacts ==
    ASSUME IInv, NEW r \in Run, NEW i \in Image, CallsFor(r, i)
    PROVE  /\ run[r].pc = "targets" /\ run[r].at \in 1 .. Len(run[r].targets)
           /\ Len(run[r].targets) \in Nat
           /\ Target(r) \in Ref /\ Target(r) # Star
           /\ i \notin run[r].containers
           /\ ByID(run[r].targets) => Target(r) = i /\ ~Hit(i)
<1>1. run[r] \in RunState
  BY DEF IInv, TypeOK
<1>2. run[r].pc = "targets" /\ run[r].at \in 1 .. Len(run[r].targets)
      /\ Len(run[r].targets) \in Nat
  BY <1>1 DEF CallsFor, AtTarget, RunState
<1>3. /\ Target(r) \in KnownAs(i) /\ KnownAs(i) \subseteq Ref
      /\ i \in run[r].listed /\ i \notin run[r].containers /\ run[r].listed \in SUBSET Image
  BY <1>1, NodeImagesAssumption DEF CallsFor, Unused, NonRunning, RunState, KnownAs, Ref
<1>4. Target(r) # Star
  BY <1>3, RemoverAssumption
<1>5. ASSUME ByID(run[r].targets) PROVE Target(r) = i /\ ~Hit(i)
  <2>1. Target(r) \in Image \cup {Star}
    BY <1>2, <1>5 DEF ByID, Target
  <2>2. Target(r) = i
    BY <2>1, <1>3, <1>4, IDsDenote
  <2>3. ~IsExcluded(i, run[r].listed)
    BY <2>2 DEF CallsFor
  <2> QED BY <2>2, <2>3, <1>3, ExcludedIsHit
<1> QED BY <1>2, <1>3, <1>4, <1>5

\* A target is deleted.
LEMMA DeleteTargetStep ==
    ASSUME IInv, NEW r \in Run, NEW i \in Image, DeleteTarget(r, i)
    PROVE  IInv'
<1> DEFINE t == run[r]
           ref == t.targets[t.at]
           s == [t EXCEPT !.at = t.at + 1, !.deleted = t.deleted \cup {ref},
                          !.removed = t.removed + 1, !.erased = t.erased \cup {i}]
<1>1. /\ onNode' \in SUBSET Image /\ run \in [Run -> RunState] /\ t \in RunState
      /\ Good(t) /\ Late(t) /\ UNCHANGED containers
  BY DEF IInv, TypeOK, DeleteTarget
<1>2. run' = [run EXCEPT ![r] = s]
  BY <1>1 DEF DeleteTarget, Target
<1>3. /\ t.pc = "targets" /\ t.at \in 1 .. Len(t.targets) /\ Len(t.targets) \in Nat
      /\ ref \in Ref /\ ref # Star
      /\ ByID(t.targets) => ref = i /\ ~Hit(i)
  BY CallFacts DEF DeleteTarget, Target
<1>4. s \in RunState
  <2>1. t.at + 1 \in Nat \ {0} /\ t.removed + 1 \in Nat
    BY <1>1, <1>3 DEF RunState
  <2> QED BY <2>1, <1>1, <1>3 DEF RunState
<1>5. /\ s.pc = "targets" /\ s.targets = t.targets /\ s.at = t.at + 1 /\ s.prune = t.prune
      /\ s.deleted = t.deleted \cup {ref} /\ s.erased = t.erased \cup {i}
      /\ s.removed = t.removed + 1 /\ t.removed \in Nat /\ t.erased \in SUBSET Image
      /\ s.containers = t.containers /\ s.late = t.late
  BY <1>1, <1>3 DEF RunState
<1>6. ref \in Image => ref = i
  BY IDsDenote DEF DeleteTarget, CallsFor, Target
<1>7. s.targets[t.at] = ref
  BY <1>5
<1> HIDE DEF s, t, ref
<1>8. Position(s)
  <2>1. t.prune <=> \E n \in 1 .. t.at - 1 : t.targets[n] = Star
    BY <1>1 DEF Good, Position
  <2>2. s.prune <=> \E n \in 1 .. s.at - 1 : s.targets[n] = Star
    BY <2>1, <1>3, <1>5, <1>7
  <2> QED BY <2>2, <1>3, <1>5 DEF Position
<1>9. Memory(s)
  BY <1>1, <1>3, <1>5, <1>6 DEF Good, Memory
<1>10. Passed(s)
  BY <1>1, <1>3, <1>5, <1>7 DEF Good, Passed
<1>11. Visited(s) /\ Kept(s) /\ Late(s)
  BY <1>1, <1>3, <1>5 DEF Good, Visited, Kept, Late
<1>12. Counted(s)
  <2> SUFFICES ASSUME ByID(t.targets), Distinct(t.targets)
               PROVE  s.removed = Cardinality(s.erased)
    BY <1>5 DEF Counted
  <2>1. i \notin t.erased
    <3> SUFFICES ASSUME i \in t.erased PROVE FALSE
      OBVIOUS
    <3>1. PICK n \in 1 .. t.at - 1 : t.targets[n] = i
      BY <1>1, <1>3 DEF Good, Passed
    <3>2. t.targets[n] = t.targets[t.at] /\ t.targets[n] # Star /\ n # t.at
      BY <3>1, <1>3, <1>5, <1>7
    <3> QED BY <3>2, <1>3 DEF Distinct
  <2>2. t.removed = Cardinality(t.erased)
    BY <1>1 DEF Good, Counted
  <2> QED BY <2>1, <2>2, <1>5, OneMore
<1> QED BY <1>1, <1>2, <1>4, <1>8, <1>9, <1>10, <1>11, <1>12, StepSafe DEF Good

\* A target is not deleted.
LEMMA TargetFailsStep ==
    ASSUME IInv, NEW r \in Run, NEW i \in Image, TargetFails(r, i)
    PROVE  IInv'
<1> DEFINE t == run[r]
           s == [t EXCEPT !.at = t.at + 1]
<1>1. /\ onNode \in SUBSET Image /\ run \in [Run -> RunState] /\ t \in RunState
      /\ Good(t) /\ Late(t) /\ UNCHANGED <<onNode, containers>>
  BY DEF IInv, TypeOK, TargetFails
<1>2. run' = [run EXCEPT ![r] = s]
  BY <1>1 DEF TargetFails
<1>3. /\ t.pc = "targets" /\ t.at \in 1 .. Len(t.targets) /\ Len(t.targets) \in Nat
      /\ t.targets[t.at] # Star
  BY CallFacts DEF TargetFails, Target
<1>4. s \in RunState
  <2>1. t.at + 1 \in Nat \ {0} /\ t.removed + 1 \in Nat
    BY <1>1, <1>3 DEF RunState
  <2> QED BY <2>1, <1>1, <1>3 DEF RunState
<1>5. /\ s.pc = "targets" /\ s.targets = t.targets /\ s.at = t.at + 1 /\ s.prune = t.prune
      /\ s.deleted = t.deleted /\ s.erased = t.erased /\ s.removed = t.removed
      /\ s.containers = t.containers /\ s.late = t.late
  BY <1>1, <1>3 DEF RunState
<1> HIDE DEF s, t
<1>6. Position(s)
  <2>1. t.prune <=> \E n \in 1 .. t.at - 1 : t.targets[n] = Star
    BY <1>1 DEF Good, Position
  <2>2. s.prune <=> \E n \in 1 .. s.at - 1 : s.targets[n] = Star
    BY <2>1, <1>3, <1>5
  <2> QED BY <2>2, <1>3, <1>5 DEF Position
<1>7. Passed(s)
  BY <1>1, <1>3, <1>5 DEF Good, Passed
<1>8. Memory(s) /\ Kept(s) /\ Counted(s)
  BY <1>1, <1>5 DEF Good, Memory, Kept, Counted
<1>9. Visited(s) /\ Late(s)
  BY <1>1, <1>3, <1>5 DEF Good, Visited, Late
<1> QED BY <1>1, <1>2, <1>4, <1>6, <1>7, <1>8, <1>9, StepSafe DEF Good

\* The list is finished: the prune begins with every key, or there is none.
LEMMA TargetsDoneStep ==
    ASSUME IInv, NEW r \in Run, TargetsDone(r)
    PROVE  IInv'
<1> DEFINE t == run[r]
           unused == NonRunning(t.listed, t.containers)
           refs == NonRunningRefs(t.listed, t.containers)
           u == [t EXCEPT !.pc = "prune", !.left = refs]
           v == [t EXCEPT !.pc = "done"]
<1>1. /\ onNode \in SUBSET Image /\ run \in [Run -> RunState] /\ t \in RunState
      /\ Good(t) /\ Late(t) /\ UNCHANGED <<onNode, containers>>
      /\ t.listed \in SUBSET Image
  BY DEF IInv, TypeOK, TargetsDone, RunState
<1>2. /\ t.prune \in BOOLEAN
      /\ t.prune => run' = [run EXCEPT ![r] = u]
      /\ ~t.prune => run' = [run EXCEPT ![r] = v]
  BY <1>1 DEF TargetsDone, UnusedRefs, RunState
<1>3. /\ t.pc = "targets" /\ t.at = Len(t.targets) + 1
  BY <1>1 DEF TargetsDone, RunState, Good, Position
<1>4. refs \subseteq Ref /\ unused \subseteq refs
  BY <1>1, KeysAreRefs, UnusedIsKey
<1>5. CASE t.prune
  <2> HIDE DEF refs, unused
  <2>1. u \in RunState
    BY <1>1, <1>4 DEF RunState
  <2>2. /\ u.pc = "prune" /\ u.targets = t.targets /\ u.at = t.at /\ u.prune = t.prune
        /\ u.deleted = t.deleted /\ u.erased = t.erased /\ u.removed = t.removed
        /\ u.left = refs /\ u.listed = t.listed
        /\ u.containers = t.containers /\ u.late = t.late
    BY <1>1 DEF RunState
  <2>3. UnusedIn(u) \subseteq u.left
    BY <2>2, <1>4 DEF UnusedIn, unused
  <2> HIDE DEF u, t
  <2>4. Position(u) /\ Memory(u) /\ Passed(u)
    BY <1>1, <1>3, <2>2 DEF Good, Position, Memory, Passed
  <2>5. Visited(u)
    BY <2>2, <2>3 DEF Visited
  <2>6. Kept(u) /\ Counted(u) /\ Late(u)
    BY <1>1, <1>3, <2>2 DEF Good, Kept, Counted, Late
  <2> QED BY <1>1, <1>2, <1>5, <2>1, <2>4, <2>5, <2>6, StepSafe DEF Good
<1>6. CASE ~t.prune
  <2> HIDE DEF refs, unused
  <2>1. v \in RunState
    BY <1>1 DEF RunState
  <2>2. /\ v.pc = "done" /\ v.targets = t.targets /\ v.at = t.at /\ v.prune = t.prune
        /\ v.deleted = t.deleted /\ v.erased = t.erased /\ v.removed = t.removed
    BY <1>1 DEF RunState
  <2> HIDE DEF v, t
  <2>3. Position(v) /\ Memory(v) /\ Passed(v)
    BY <1>1, <1>3, <2>2 DEF Good, Position, Memory, Passed
  <2>4. Visited(v)
    BY <1>6, <2>2 DEF Visited
  <2>5. Kept(v) /\ Counted(v) /\ Late(v)
    BY <1>1, <2>2 DEF Good, Kept, Counted, Late
  <2> QED BY <1>1, <1>2, <1>6, <2>1, <2>3, <2>4, <2>5, StepSafe DEF Good
<1> QED BY <1>2, <1>5, <1>6

\* What a visit of a key says.
LEMMA VisitFacts ==
    ASSUME IInv, NEW r \in Run, NEW ref \in Ref, NEW i \in Image, Visits(r, ref, i)
    PROVE  /\ run[r] \in RunState /\ Good(run[r]) /\ Late(run[r])
           /\ run[r].pc = "prune" /\ i \notin run[r].containers
           /\ IsExcluded(i, run[r].listed) <=> Hit(i)
           /\ \A k \in Image : k = ref => k = i
           /\ UnusedIn(run[r]) \subseteq Image
<1>1. run[r] \in RunState /\ Good(run[r]) /\ Late(run[r])
  BY DEF IInv, TypeOK
<1>2. run[r].listed \in SUBSET Image
  BY <1>1 DEF RunState
<1>3. i \in run[r].listed /\ i \notin run[r].containers
  BY DEF Visits, Unused, NonRunning
<1>4. \A k \in Image : k = ref => k = i
  BY IDsDenote DEF Visits
<1>5. run[r].pc = "prune"
  BY DEF Visits
<1>6. UnusedIn(run[r]) \subseteq Image
  BY <1>2 DEF UnusedIn, NonRunning
<1> QED BY <1>1, <1>2, <1>3, <1>4, <1>5, <1>6, ExcludedIsHit

\* A key of an image that was deleted, or is excluded.
LEMMA PrunePassesStep ==
    ASSUME IInv, NEW r \in Run, NEW ref \in Ref, NEW i \in Image, PrunePasses(r, ref, i)
    PROVE  IInv'
<1> DEFINE t == run[r]
           s == [t EXCEPT !.left = t.left \ {ref}]
<1>1. /\ onNode \in SUBSET Image /\ run \in [Run -> RunState]
      /\ UNCHANGED <<onNode, containers>>
  BY DEF IInv, TypeOK, PrunePasses
<1>2. /\ t \in RunState /\ Good(t) /\ Late(t) /\ t.pc = "prune"
      /\ i \in t.deleted \/ Hit(i)
      /\ \A k \in Image : k = ref => k = i
      /\ UnusedIn(t) \subseteq Image
  BY VisitFacts DEF PrunePasses, Skipped
<1>3. run' = [run EXCEPT ![r] = s]
  BY <1>1, <1>2 DEF PrunePasses
<1>4. s \in RunState
  BY <1>2 DEF RunState
<1>5. /\ s.pc = t.pc /\ s.targets = t.targets /\ s.at = t.at /\ s.prune = t.prune
      /\ s.deleted = t.deleted /\ s.erased = t.erased /\ s.removed = t.removed
      /\ s.containers = t.containers /\ s.late = t.late /\ s.listed = t.listed
      /\ s.left = t.left \ {ref} /\ s.spared = t.spared
  BY <1>2 DEF RunState
<1> HIDE DEF s, t
<1>6. Position(s) /\ Memory(s) /\ Passed(s)
  BY <1>2, <1>5 DEF Good, Position, Memory, Passed
<1>7. Visited(s)
  <2>1. UnusedIn(s) = UnusedIn(t)
    BY <1>5 DEF UnusedIn
  <2>2. i \in t.erased \/ Hit(i)
    BY <1>2 DEF Good, Memory
  <2>3. \A k \in UnusedIn(t) : s.prune => k \in t.left \cup t.erased \cup t.spared \/ Hit(k)
    BY <1>2, <1>5 DEF Good, Visited
  <2>4. \A k \in UnusedIn(s) : s.prune => k \in s.left \cup s.erased \cup s.spared \/ Hit(k)
    BY <2>1, <2>2, <2>3, <1>2, <1>5
  <2> QED BY <2>4, <1>2, <1>5 DEF Visited
<1>8. Kept(s) /\ Counted(s) /\ Late(s)
  BY <1>2, <1>5 DEF Good, Kept, Counted, Late
<1> QED BY <1>1, <1>3, <1>4, <1>6, <1>7, <1>8, StepSafe DEF Good

\* The prune deletes an image.
LEMMA PruneDeletesStep ==
    ASSUME IInv, NEW r \in Run, NEW ref \in Ref, NEW i \in Image, PruneDeletes(r, ref, i)
    PROVE  IInv'
<1> DEFINE t == run[r]
           s == [t EXCEPT !.left = t.left \ {ref}, !.deleted = t.deleted \cup {i},
                          !.removed = t.removed + 1, !.erased = t.erased \cup {i}]
<1>1. /\ onNode' \in SUBSET Image /\ run \in [Run -> RunState] /\ UNCHANGED containers
  BY DEF IInv, TypeOK, PruneDeletes
<1>2. /\ t \in RunState /\ Good(t) /\ Late(t) /\ t.pc = "prune"
      /\ i \notin t.deleted /\ ~Hit(i)
      /\ \A k \in Image : k = ref => k = i
      /\ UnusedIn(t) \subseteq Image
  BY VisitFacts DEF PruneDeletes, Skipped
<1>3. run' = [run EXCEPT ![r] = s]
  BY <1>1, <1>2 DEF PruneDeletes
<1>4. s \in RunState
  <2>1. t.removed + 1 \in Nat /\ i \in Ref
    BY <1>2 DEF RunState, Ref
  <2> QED BY <2>1, <1>2 DEF RunState
<1>5. /\ s.pc = t.pc /\ s.targets = t.targets /\ s.at = t.at /\ s.prune = t.prune
      /\ s.deleted = t.deleted \cup {i} /\ s.erased = t.erased \cup {i}
      /\ s.removed = t.removed + 1 /\ t.removed \in Nat /\ t.erased \in SUBSET Image
      /\ s.containers = t.containers /\ s.late = t.late /\ s.listed = t.listed
      /\ s.left = t.left \ {ref} /\ s.spared = t.spared
  BY <1>2 DEF RunState
<1> HIDE DEF s, t
<1>6. Position(s) /\ Memory(s) /\ Passed(s)
  BY <1>2, <1>5 DEF Good, Position, Memory, Passed
<1>7. Visited(s)
  <2>1. UnusedIn(s) = UnusedIn(t)
    BY <1>5 DEF UnusedIn
  <2>2. \A k \in UnusedIn(t) : s.prune => k \in t.left \cup t.erased \cup t.spared \/ Hit(k)
    BY <1>2, <1>5 DEF Good, Visited
  <2>3. \A k \in UnusedIn(s) : s.prune => k \in s.left \cup s.erased \cup s.spared \/ Hit(k)
    BY <2>1, <2>2, <1>2, <1>5
  <2> QED BY <2>3, <1>2, <1>5 DEF Visited
<1>8. Kept(s) /\ Late(s)
  BY <1>2, <1>5 DEF Good, Kept, Late
<1>9. Counted(s)
  <2> SUFFICES ASSUME ByID(t.targets), Distinct(t.targets)
               PROVE  s.removed = Cardinality(s.erased)
    BY <1>5 DEF Counted
  <2>1. i \notin t.erased
    BY <1>2 DEF Good, Memory
  <2>2. t.removed = Cardinality(t.erased)
    BY <1>2 DEF Good, Counted
  <2> QED BY <2>1, <2>2, <1>5, OneMore
<1> QED BY <1>1, <1>3, <1>4, <1>6, <1>7, <1>8, <1>9, StepSafe DEF Good

\* The prune does not succeed in deleting an image.
LEMMA PruneFailsStep ==
    ASSUME IInv, NEW r \in Run, NEW ref \in Ref, NEW i \in Image, PruneFails(r, ref, i)
    PROVE  IInv'
<1> DEFINE t == run[r]
           s == [t EXCEPT !.left = t.left \ {ref}, !.spared = t.spared \cup {i}]
<1>1. /\ onNode \in SUBSET Image /\ run \in [Run -> RunState]
      /\ UNCHANGED <<onNode, containers>>
  BY DEF IInv, TypeOK, PruneFails
<1>2. /\ t \in RunState /\ Good(t) /\ Late(t) /\ t.pc = "prune"
      /\ \A k \in Image : k = ref => k = i
      /\ UnusedIn(t) \subseteq Image
  BY VisitFacts DEF PruneFails
<1>3. run' = [run EXCEPT ![r] = s]
  BY <1>1, <1>2 DEF PruneFails
<1>4. s \in RunState
  BY <1>2 DEF RunState
<1>5. /\ s.pc = t.pc /\ s.targets = t.targets /\ s.at = t.at /\ s.prune = t.prune
      /\ s.deleted = t.deleted /\ s.erased = t.erased /\ s.removed = t.removed
      /\ s.containers = t.containers /\ s.late = t.late /\ s.listed = t.listed
      /\ s.left = t.left \ {ref} /\ s.spared = t.spared \cup {i}
  BY <1>2 DEF RunState
<1> HIDE DEF s, t
<1>6. Position(s) /\ Memory(s) /\ Passed(s)
  BY <1>2, <1>5 DEF Good, Position, Memory, Passed
<1>7. Visited(s)
  <2>1. UnusedIn(s) = UnusedIn(t)
    BY <1>5 DEF UnusedIn
  <2>2. \A k \in UnusedIn(t) : s.prune => k \in t.left \cup t.erased \cup t.spared \/ Hit(k)
    BY <1>2, <1>5 DEF Good, Visited
  <2>3. \A k \in UnusedIn(s) : s.prune => k \in s.left \cup s.erased \cup s.spared \/ Hit(k)
    BY <2>1, <2>2, <1>2, <1>5
  <2> QED BY <2>3, <1>2, <1>5 DEF Visited
<1>8. Kept(s) /\ Counted(s) /\ Late(s)
  BY <1>2, <1>5 DEF Good, Kept, Counted, Late
<1> QED BY <1>1, <1>3, <1>4, <1>6, <1>7, <1>8, StepSafe DEF Good

\* No key is left.
LEMMA PruneDoneStep ==
    ASSUME IInv, NEW r \in Run, PruneDone(r)
    PROVE  IInv'
<1> DEFINE t == run[r]
           s == [t EXCEPT !.pc = "done"]
<1>1. /\ onNode \in SUBSET Image /\ run \in [Run -> RunState] /\ t \in RunState
      /\ Good(t) /\ UNCHANGED <<onNode, containers>>
      /\ run' = [run EXCEPT ![r] = s] /\ t.pc = "prune" /\ t.left = {}
  BY DEF IInv, TypeOK, PruneDone
<1>2. s \in RunState
  BY <1>1 DEF RunState
<1>3. /\ s.pc = "done" /\ s.targets = t.targets /\ s.at = t.at /\ s.prune = t.prune
      /\ s.deleted = t.deleted /\ s.erased = t.erased /\ s.removed = t.removed
      /\ s.left = t.left /\ s.spared = t.spared /\ UnusedIn(s) = UnusedIn(t)
  BY <1>1 DEF RunState, UnusedIn
<1> HIDE DEF s, t
<1>4. Position(s) /\ Memory(s) /\ Passed(s)
  BY <1>1, <1>3 DEF Good, Position, Memory, Passed
<1>5. Visited(s) /\ Late(s)
  BY <1>1, <1>3 DEF Good, Visited, Late
<1>6. Kept(s) /\ Counted(s)
  BY <1>1, <1>3 DEF Good, Kept, Counted
<1> QED BY <1>1, <1>2, <1>4, <1>5, <1>6, StepSafe DEF Good

-----------------------------------------------------------------------------
(* The kubelet and the runtime.                                            *)

\* A container created now is recent for the removers past their listing.
LEMMA CreateContainerStep ==
    ASSUME IInv, NEW i \in Image, CreateContainer(i)
    PROVE  IInv'
<1>1. /\ onNode' \in SUBSET Image /\ containers' \in SUBSET Image
      /\ containers' = containers \cup {i}
      /\ run \in [Run -> RunState]
      /\ \A r \in Run : Good(run[r]) /\ Late(run[r])
  BY DEF IInv, TypeOK, CreateContainer
<1>2. ASSUME NEW r \in Run
      PROVE  run'[r] \in RunState /\ Good(run'[r]) /\ Late(run[r])'
  <2> DEFINE t == run[r]
             s == IF t.pc \in {"targets", "prune"}
                  THEN [t EXCEPT !.late = t.late \cup {i}] ELSE t
  <2>1. run'[r] = s /\ t \in RunState /\ Good(t) /\ Late(t)
    BY <1>1, <1>2 DEF CreateContainer
  <2>2. s \in RunState
    BY <2>1 DEF RunState
  <2>3. /\ s.pc = t.pc /\ s.targets = t.targets /\ s.at = t.at /\ s.prune = t.prune
        /\ s.deleted = t.deleted /\ s.erased = t.erased /\ s.removed = t.removed
        /\ s.left = t.left /\ s.spared = t.spared /\ s.containers = t.containers
        /\ s.listed = t.listed
        /\ t.pc \in {"targets", "prune"} => s.late = t.late \cup {i}
    BY <2>1 DEF RunState
  <2> HIDE DEF s, t
  <2>4. Good(s)
    BY <2>1, <2>3 DEF Good, Position, Memory, Passed, Visited, Kept, Counted, UnusedIn
  <2>5. s.pc \in {"targets", "prune"} => containers' \subseteq s.containers \cup s.late
    BY <2>1, <2>3, <1>1 DEF Late
  <2> QED BY <2>1, <2>2, <2>4, <2>5 DEF Late
<1>3. run' \in [Run -> RunState]
  BY <1>2 DEF CreateContainer
<1> QED BY <1>1, <1>2, <1>3 DEF IInv, TypeOK

\* Pulls, and containers that go, concern no remover.
LEMMA RuntimeStep ==
    ASSUME IInv, NEW i \in Image, Runtime(i)
    PROVE  IInv'
<1>1. CASE CreateContainer(i)
  BY <1>1, CreateContainerStep
<1>2. CASE Pull(i) \/ RemoveContainers(i)
  <2>1. /\ run' = run /\ onNode' \in SUBSET Image
        /\ containers' \in SUBSET Image /\ containers' \subseteq containers
    BY <1>2 DEF Pull, RemoveContainers, IInv, TypeOK
  <2> QED BY <2>1 DEF IInv, TypeOK, Late
<1> QED BY <1>1, <1>2 DEF Runtime

-----------------------------------------------------------------------------
(* The theorems.                                                           *)

\* The invariant holds initially.
LEMMA InitIInv == Init => IInv
<1> SUFFICES ASSUME Init PROVE IInv
  OBVIOUS
<1>1. PICK given \in [Run -> TargetLists] : run = [r \in Run |-> Fresh(given[r])]
  BY DEF Init
<1>2. ASSUME NEW r \in Run
      PROVE  run[r] \in RunState /\ Good(run[r]) /\ Late(run[r])
  <2> DEFINE s == Fresh(given[r])
  <2>1. given[r] \in Seq(Ref \cup {Star}) /\ run[r] = s
    BY <1>1, <1>2, RemoverAssumption
  <2>2. s \in RunState
    BY <2>1 DEF Fresh, RunState
  <2>3. /\ s.pc = "start" /\ s.targets = given[r] /\ s.at = 1 /\ s.prune = FALSE
        /\ s.deleted = {} /\ s.erased = {} /\ s.removed = 0
    BY DEF Fresh
  <2>4. Len(given[r]) \in Nat
    BY <2>1
  <2> HIDE DEF s
  <2>5. Good(s) /\ Late(s)
    BY <2>3, <2>4, FS_EmptySet
       DEF Good, Position, Memory, Passed, Visited, Kept, Counted, Late
  <2> QED BY <2>1, <2>2, <2>5
<1>3. onNode \in SUBSET Image /\ containers \in SUBSET Image
  BY DEF Init
<1>4. run \in [Run -> RunState]
  BY <1>1, <1>2
<1> QED BY <1>2, <1>3, <1>4 DEF IInv, TypeOK

\* Every step keeps it.
LEMMA NextIInv == IInv /\ [Next]_vars => IInv'
<1> SUFFICES ASSUME IInv, [Next]_vars PROVE IInv'
  OBVIOUS
<1>1. CASE UNCHANGED vars
  BY <1>1 DEF vars, IInv, TypeOK, Late
<1>2. ASSUME NEW i \in Image, Runtime(i) PROVE IInv'
  BY <1>2, RuntimeStep
<1>3. ASSUME NEW r \in Run, Proceeds(r) \/ Stop(r) PROVE IInv'
  BY <1>3, ListsStep, PassTargetStep, TargetsDoneStep, PruneDoneStep, StopStep DEF Proceeds
<1>4. ASSUME NEW r \in Run, NEW i \in Image, Removes(r, i) PROVE IInv'
  BY <1>4, DeleteTargetStep, TargetFailsStep, PrunePassesStep, PruneDeletesStep,
     PruneFailsStep DEF Removes
<1> QED BY <1>1, <1>2, <1>3, <1>4 DEF Next

\* The invariant holds in every behaviour of the node.
THEOREM Inductive == Spec => []IInv
BY InitIInv, NextIInv, PTL DEF Spec

\* The variables keep their types: only references are remembered as deleted.
THEOREM TypeCorrect == Spec => []TypeOK
<1>1. IInv => TypeOK
  BY DEF IInv
<1> QED BY <1>1, Inductive, PTL

\* Given a list by ID, no remover deletes an image that is excluded under any
\* of its names, however the runtime answers.
THEOREM ExclusionHolds == Spec => []ExcludedIsKept
<1>1. IInv => ExcludedIsKept
  BY DEF IInv, Good, Kept, Hit, ExcludedIsKept
<1> QED BY <1>1, Inductive, PTL

\* A prune that ends has dealt with every image that was listed unused.
THEOREM PruneCompletes == Spec => []PruneIsComplete
<1>1. ASSUME IInv, NEW r \in Run, run[r].pc = "done",
             NEW n \in 1 .. Len(run[r].targets), run[r].targets[n] = Star,
             NEW i \in Unused(r)
      PROVE  i \in run[r].erased \cup run[r].spared \/ Hit(i)
  <2>1. Good(run[r]) /\ run[r] \in RunState
    BY <1>1 DEF IInv, TypeOK
  <2>2. n \in 1 .. run[r].at - 1
    BY <1>1, <2>1 DEF Good, Position, RunState
  <2>3. run[r].prune
    BY <1>1, <2>1, <2>2 DEF Good, Position
  <2> QED BY <1>1, <2>1, <2>3 DEF Good, Visited, UnusedIn, Unused
<1>2. IInv => PruneIsComplete
  BY <1>1 DEF PruneIsComplete, Hit
<1> QED BY <1>2, Inductive, PTL

\* The count of a list of distinct IDs is the number of images deleted.
THEOREM CountCorrect == Spec => []CountIsExact
<1>1. IInv => CountIsExact
  BY DEF IInv, Good, Counted, CountIsExact
<1> QED BY <1>1, Inductive, PTL

\* An image that a container uses is deleted only if the container was created
\* after the remover listed the containers.
THEOREM InUseSpared == Spec => InUseIsSpared
<1> DEFINE Spared == \A r \in Run, i \in Image :
               i \in containers /\ i \in run[r].erased' \ run[r].erased => i \in run[r].late
<1>1. ASSUME IInv, Next PROVE Spared
  <2> SUFFICES ASSUME NEW r \in Run, NEW i \in Image, i \in containers,
                      i \in run'[r].erased, i \notin run[r].erased
               PROVE  i \in run[r].late
    OBVIOUS
  <2>0. run \in [Run -> RunState] /\ run[r] \in RunState /\ Late(run[r])
    BY <1>1 DEF IInv, TypeOK
  <2>1. ASSUME NEW j \in Image, Runtime(j) PROVE FALSE
    <3>1. CASE CreateContainer(j)
      <4>1. run'[r] = run[r] \/ run'[r] = [run[r] EXCEPT !.late = run[r].late \cup {j}]
        BY <3>1 DEF CreateContainer
      <4> QED BY <4>1, <2>0 DEF RunState
    <3>2. CASE Pull(j) \/ RemoveContainers(j)
      BY <3>2 DEF Pull, RemoveContainers
    <3> QED BY <2>1, <3>1, <3>2 DEF Runtime
  <2>2. ASSUME NEW q \in Run, Proceeds(q) \/ Stop(q) PROVE FALSE
    <3>1. CASE Lists(q)
      <4>1. CASE ListImages(q)
        BY <4>1, <2>0 DEF ListImages, RunState
      <4>2. CASE ListContainers(q)
        BY <4>2, <2>0 DEF ListContainers, RunState
      <4> QED BY <3>1, <4>1, <4>2 DEF Lists
    <3>2. CASE Stop(q)
      BY <3>2, <2>0 DEF Stop, RunState
    <3>3. CASE PassTarget(q)
      BY <3>3, <2>0 DEF PassTarget, RunState
    <3>4. CASE TargetsDone(q)
      <4>1. CASE run[q].prune
        BY <3>4, <4>1, <2>0 DEF TargetsDone, RunState
      <4>2. CASE ~run[q].prune
        BY <3>4, <4>2, <2>0 DEF TargetsDone, RunState
      <4> QED BY <4>1, <4>2
    <3>5. CASE PruneDone(q)
      BY <3>5, <2>0 DEF PruneDone, RunState
    <3> QED BY <2>2, <3>1, <3>2, <3>3, <3>4, <3>5 DEF Proceeds
  <2>3. ASSUME NEW q \in Run, NEW j \in Image, Removes(q, j)
        PROVE  /\ q = r /\ j = i
               /\ DeleteTarget(q, j) \/ \E ref \in Ref : PruneDeletes(q, ref, j)
    <3>1. CASE TargetFails(q, j)
      BY <3>1, <2>0 DEF TargetFails, RunState
    <3>2. ASSUME NEW ref \in Ref, PrunePasses(q, ref, j) \/ PruneFails(q, ref, j)
          PROVE  FALSE
      <4>1. CASE PrunePasses(q, ref, j)
        BY <4>1, <2>0 DEF PrunePasses, RunState
      <4>2. CASE PruneFails(q, ref, j)
        BY <4>2, <2>0 DEF PruneFails, RunState
      <4> QED BY <3>2, <4>1, <4>2
    <3>3. CASE DeleteTarget(q, j)
      <4>1. q = r
        BY <3>3, <2>0 DEF DeleteTarget
      <4>2. run'[r].erased = run[r].erased \cup {j}
        BY <3>3, <4>1, <2>0 DEF DeleteTarget, RunState
      <4> QED BY <3>3, <4>1, <4>2
    <3>4. ASSUME NEW ref \in Ref, PruneDeletes(q, ref, j)
          PROVE  q = r /\ j = i
      <4>1. q = r
        BY <3>4, <2>0 DEF PruneDeletes
      <4>2. run'[r].erased = run[r].erased \cup {j}
        BY <3>4, <4>1, <2>0 DEF PruneDeletes, RunState
      <4> QED BY <4>1, <4>2
    <3> QED BY <2>3, <3>1, <3>2, <3>3, <3>4 DEF Removes
  <2>4. ASSUME DeleteTarget(r, i) \/ \E ref \in Ref : PruneDeletes(r, ref, i)
        PROVE  run[r].pc \in {"targets", "prune"} /\ i \notin run[r].containers
    BY <2>4, <1>1, CallFacts, VisitFacts DEF DeleteTarget, PruneDeletes
  <2>5. DeleteTarget(r, i) \/ \E ref \in Ref : PruneDeletes(r, ref, i)
    BY <1>1, <2>1, <2>2, <2>3 DEF Next
  <2> QED BY <2>0, <2>4, <2>5 DEF Late
<1>2. ASSUME IInv, [Next]_vars PROVE [Spared]_vars
  BY <1>1, <1>2
<1> QED BY <1>2, Inductive, PTL DEF Spec, InUseIsSpared
=============================================================================
