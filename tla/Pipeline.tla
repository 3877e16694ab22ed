------------------------------ MODULE Pipeline ------------------------------
(***************************************************************************)
(* The containers of one collector pod: the collector, the scanner and the *)
(* remover hand a list of images on through named pipes in a shared        *)
(* directory, and the remover tells the two others when it is done.        *)
(*                                                                         *)
(* A container runs its steps one after the other.  A pipe is made by one  *)
(* of its ends; an open blocks until the other end opens, too; a read ends *)
(* when the writer closes or dies; a write fails when the reader has died. *)
(***************************************************************************)
EXTENDS NodeImages, Sequences

CONSTANTS Vulnerable,  \* images in which a complete scan finds something
          MaxFaults    \* bound: containers that die, lists that cannot be sent

ASSUME PipelineAssumption == Vulnerable \subseteq Image /\ MaxFaults \in Nat

Container == {"collector", "scanner", "remover"}
Pipe == {"collectScan", "scanErase", "eraseCompleteCollect", "eraseCompleteScan"}

VARIABLES options,    \* is there a scanner; does it condemn what it cannot scan
          pc,         \* pc[c]: the step that container c is at
          failed,     \* containers that ended with an error
          pipe,       \* pipe[p]: the pipe and what was written to it
          todo,       \* todo[c]: images the scanner or the remover has to go through
          condemned,  \* the scanner's lists: non-compliant images,
          unscanned,  \*                      images it could not scan
          faults,
          found,      \* history: images collected,
          tried,      \*          images the remover has gone through,
          erased      \*          images deleted

vars == <<options, pc, failed, pipe, todo, condemned, unscanned, faults, found, tried, erased>>

-----------------------------------------------------------------------------
(* The steps of the containers.                                            *)

Do(verb, p) == [do |-> verb, on |-> p]
Work(verb) == Do(verb, "none")

CollectorOut == IF options.scan THEN "collectScan" ELSE "scanErase"

CollectorSteps ==
    <<Work("list"),
      Do("make", CollectorOut), Do("open", CollectorOut), Do("write", CollectorOut),
      Do("make", "eraseCompleteCollect"), Do("open", "eraseCompleteCollect"),
      Do("read", "eraseCompleteCollect")>>

\* Mutant: the pipe of the answer is made after the list was sent.
ScannerStepsLate ==
    <<Do("open", "collectScan"), Do("read", "collectScan"),
      Work("scan"),
      Do("make", "scanErase"), Do("open", "scanErase"), Do("write", "scanErase"),
      Do("make", "eraseCompleteScan"), Do("open", "eraseCompleteScan"),
      Do("read", "eraseCompleteScan")>>

\* ReceiveImages, scan, SendImages, Finish.
ScannerSteps ==
    <<Do("make", "eraseCompleteScan"),
      Do("open", "collectScan"), Do("read", "collectScan"),
      Work("scan"),
      Do("make", "scanErase"), Do("open", "scanErase"), Do("write", "scanErase"),
      Do("open", "eraseCompleteScan"), Do("read", "eraseCompleteScan")>>

RemoverSteps ==
    <<Do("open", "scanErase"), Do("read", "scanErase"),
      Work("remove"),
      Do("open", "eraseCompleteCollect"), Do("write", "eraseCompleteCollect"),
      Do("open", "eraseCompleteScan"), Do("write", "eraseCompleteScan")>>

Steps(c) == CASE c = "collector" -> CollectorSteps
              [] c = "scanner"   -> IF options.scan THEN ScannerSteps ELSE <<>>
              [] c = "remover"   -> RemoverSteps

Running(c) == c \notin failed /\ pc[c] <= Len(Steps(c))
Exited(c) == c \notin failed /\ pc[c] > Len(Steps(c))
AtStep(c, step) == Running(c) /\ Steps(c)[pc[c]] = step
Past(c, verb) == \A n \in pc[c] .. Len(Steps(c)) : Steps(c)[n] # Work(verb)

Advance(c) == pc' = [pc EXCEPT ![c] = @ + 1]
Fail(c) == failed' = failed \cup {c}

Absent == [state |-> "absent", whole |-> FALSE, images |-> {}]

-----------------------------------------------------------------------------
(* Pipes.                                                                  *)

Writes(c, p) == \E n \in 1 .. Len(Steps(c)) : Steps(c)[n] = Do("write", p)
Reads(c, p) == \E n \in 1 .. Len(Steps(c)) : Steps(c)[n] = Do("read", p)

MakePipe(c, p) ==
    /\ AtStep(c, Do("make", p))
    /\ pipe' = [pipe EXCEPT ![p].state = "made"]
    /\ Advance(c)
    /\ UNCHANGED <<options, failed, todo, condemned, unscanned, faults, found, tried, erased>>

\* Both ends are blocked in open, or the reader looks for the pipe once more.
OpenPipe(w, r, p) ==
    /\ w # r /\ Writes(w, p) /\ Reads(r, p)
    /\ AtStep(w, Do("open", p)) /\ AtStep(r, Do("open", p))
    /\ pipe[p].state = "made"
    /\ pipe' = [pipe EXCEPT ![p].state = "open"]
    /\ pc' = [pc EXCEPT ![w] = @ + 1, ![r] = @ + 1]
    /\ UNCHANGED <<options, failed, todo, condemned, unscanned, faults, found, tried, erased>>

\* Mutant: nobody waits for a pipe to be made.
NobodyWaits(c, p) ==
    /\ AtStep(c, Do("open", p)) /\ pipe[p].state = "absent"
    /\ Fail(c) /\ UNCHANGED pc
    /\ UNCHANGED <<options, pipe, todo, condemned, unscanned, faults, found, tried, erased>>

\* The remover does not wait for the pipes it answers through: without the
\* collector's it fails, without the scanner's it is done.
PipeIsMissing(c, p) ==
    /\ c = "remover" /\ Writes(c, p)
    /\ AtStep(c, Do("open", p)) /\ pipe[p].state = "absent"
    /\ IF p = "eraseCompleteScan"
       THEN pc' = [pc EXCEPT ![c] = Len(RemoverSteps) + 1] /\ UNCHANGED failed
       ELSE Fail(c) /\ UNCHANGED pc
    /\ UNCHANGED <<options, pipe, todo, condemned, unscanned, faults, found, tried, erased>>

\* Mutant: what could not be scanned is sent whatever the option says.
SendsAll(c) == CASE c = "collector" -> found
                 [] c = "scanner"   -> condemned \cup unscanned
                 [] c = "remover"   -> {}

\* The remover's message is the word "complete".
Sends(c) == CASE c = "collector" -> found
              [] c = "scanner"   -> condemned \cup IF options.deleteFailed THEN unscanned ELSE {}
              [] c = "remover"   -> {}

WritePipe(c, p) ==
    /\ AtStep(c, Do("write", p))
    /\ \A r \in failed : ~Reads(r, p)
    /\ pipe' = [pipe EXCEPT ![p] = [state |-> "closed", whole |-> TRUE, images |-> Sends(c)]]
    /\ Advance(c)
    /\ UNCHANGED <<options, failed, todo, condemned, unscanned, faults, found, tried, erased>>

\* The reader has died: the scanner logs the error and goes on to Finish.
WriteBreaks(c, p) ==
    /\ AtStep(c, Do("write", p))
    /\ \E r \in failed : Reads(r, p)
    /\ IF c = "scanner" THEN Advance(c) /\ UNCHANGED failed ELSE Fail(c) /\ UNCHANGED pc
    /\ UNCHANGED <<options, pipe, todo, condemned, unscanned, faults, found, tried, erased>>

\* A list that was cut short cannot be decoded.  The scanner calls what is not
\* the word "complete" garbage, and exits without an error all the same.
Accepts(c, p) == pipe[p].whole \/ (c = "scanner" /\ p = "eraseCompleteScan")

ReadPipe(c, p) ==
    /\ AtStep(c, Do("read", p)) /\ pipe[p].state = "closed"
    /\ IF Accepts(c, p)
       THEN /\ Advance(c)
            /\ todo' = [todo EXCEPT ![c] = pipe[p].images]
            /\ UNCHANGED failed
       ELSE Fail(c) /\ UNCHANGED <<pc, todo>>
    /\ UNCHANGED <<options, pipe, condemned, unscanned, faults, found, tried, erased>>

-----------------------------------------------------------------------------
(* The work of the containers.                                             *)

\* Mutant: the keys of the map are collected, not the IDs they lead to.
CollectKeys ==
    /\ AtStep("collector", Work("list"))
    /\ \E listed, containers \in SUBSET Image : found' = NonRunningRefs(listed, containers)
    /\ Advance("collector")
    /\ UNCHANGED <<options, failed, pipe, todo, condemned, unscanned, faults, tried, erased>>

\* getImages: images and containers are whatever the runtime lists.
Collect ==
    /\ AtStep("collector", Work("list"))
    /\ \E listed, containers \in SUBSET Image : found' = Collected(listed, containers)
    /\ Advance("collector")
    /\ UNCHANGED <<options, failed, pipe, todo, condemned, unscanned, faults, tried, erased>>

Scanning(i) == AtStep("scanner", Work("scan")) /\ i \in todo["scanner"]

\* One name or digest after the other until a scan completes.
ScanCompletes(i) ==
    /\ Scanning(i) /\ Names[i] # {}
    /\ condemned' = IF i \in Vulnerable THEN condemned \cup {i} ELSE condemned
    /\ todo' = [todo EXCEPT !["scanner"] = @ \ {i}]
    /\ UNCHANGED <<options, pc, failed, pipe, unscanned, faults, found, tried, erased>>

\* The image has neither name nor digest, or no scan completes.
ScanFails(i) ==
    /\ Scanning(i)
    /\ unscanned' = unscanned \cup {i}
    /\ todo' = [todo EXCEPT !["scanner"] = @ \ {i}]
    /\ UNCHANGED <<options, pc, failed, pipe, condemned, faults, found, tried, erased>>

\* Mutant: the images that are left are forgotten.
ScanForgetsRest ==
    /\ AtStep("scanner", Work("scan"))
    /\ todo' = [todo EXCEPT !["scanner"] = {}]
    /\ Advance("scanner")
    /\ UNCHANGED <<options, failed, pipe, condemned, unscanned, faults, found, tried, erased>>

\* All images are scanned, or the total timeout fires between two images: those
\* that are left count as failed.
ScanEnds ==
    /\ AtStep("scanner", Work("scan"))
    /\ unscanned' = unscanned \cup todo["scanner"]
    /\ todo' = [todo EXCEPT !["scanner"] = {}]
    /\ Advance("scanner")
    /\ UNCHANGED <<options, failed, pipe, condemned, faults, found, tried, erased>>

\* removeImages (see Remover.tla): the image is deleted; or it is in use, gone
\* or cannot be deleted, which is logged.
Remove(i) ==
    /\ AtStep("remover", Work("remove")) /\ i \in todo["remover"]
    /\ todo' = [todo EXCEPT !["remover"] = @ \ {i}]
    /\ tried' = tried \cup {i}
    /\ erased' \in {erased, erased \cup {i}}
    /\ UNCHANGED <<options, pc, failed, pipe, condemned, unscanned, faults, found>>

RemoveEnds ==
    /\ AtStep("remover", Work("remove")) /\ todo["remover"] = {}
    /\ Advance("remover")
    /\ UNCHANGED <<options, failed, pipe, todo, condemned, unscanned, faults, found, tried, erased>>

-----------------------------------------------------------------------------
(* Faults.                                                                 *)

\* A container is killed, or exits on an error of the runtime or of a file;
\* the pipes it has open for writing are closed.
Die(c) ==
    /\ Running(c) /\ faults < MaxFaults
    /\ faults' = faults + 1
    /\ Fail(c)
    /\ pipe' = [p \in Pipe |-> IF Writes(c, p) /\ pipe[p].state = "open"
                               THEN [pipe[p] EXCEPT !.state = "closed"] ELSE pipe[p]]
    /\ UNCHANGED <<options, pc, todo, condemned, unscanned, found, tried, erased>>

\* The scanner cannot make scanErase; it logs the error and goes on to Finish.
SendFails ==
    /\ AtStep("scanner", Do("make", "scanErase")) /\ faults < MaxFaults
    /\ faults' = faults + 1
    /\ pc' = [pc EXCEPT !["scanner"] = @ + 3]
    /\ UNCHANGED <<options, failed, pipe, todo, condemned, unscanned, found, tried, erased>>

-----------------------------------------------------------------------------
Init ==
    /\ options \in [scan : BOOLEAN, deleteFailed : BOOLEAN]
    /\ pc = [c \in Container |-> 1]
    /\ failed = {}
    /\ pipe = [p \in Pipe |-> Absent]
    /\ todo = [c \in Container |-> {}]
    /\ condemned = {} /\ unscanned = {}
    /\ faults = 0
    /\ found = {} /\ tried = {} /\ erased = {}

Communicate(p) ==
    \/ \E w, r \in Container : OpenPipe(w, r, p)
    \/ \E c \in Container : \/ MakePipe(c, p) \/ PipeIsMissing(c, p)
                            \/ WritePipe(c, p) \/ WriteBreaks(c, p)
                            \/ ReadPipe(c, p)

Process == \/ Collect \/ ScanEnds \/ RemoveEnds
           \/ \E i \in Image : ScanCompletes(i) \/ ScanFails(i) \/ Remove(i)

Proceed == Process \/ \E p \in Pipe : Communicate(p)

Fault == SendFails \/ \E c \in Container : Die(c)

Next == Proceed \/ Fault

Spec == Init /\ [][Next]_vars

\* Containers run, calls return and the kernel wakes those whose pipe is open.
FairSpec == Spec /\ WF_vars(Proceed)

-----------------------------------------------------------------------------
(* Properties.                                                             *)

\* The type invariant of the pod.
TypeOK ==
    /\ options \in [scan : BOOLEAN, deleteFailed : BOOLEAN]
    /\ pc \in [Container -> 1 .. 10]
    /\ failed \subseteq Container
    /\ pipe \in [Pipe -> [state : {"absent", "made", "open", "closed"},
                          whole : BOOLEAN, images : SUBSET Image]]
    /\ todo \in [Container -> SUBSET Image]
    /\ condemned \subseteq Image /\ unscanned \subseteq Image
    /\ faults \in 0 .. MaxFaults
    /\ found \subseteq Image /\ tried \subseteq Image /\ erased \subseteq Image

\* An image is to go when it has a finding, or could not be scanned and the
\* option says so; without a scanner, when it was collected.
ToGo == IF options.scan
        THEN condemned \cup IF options.deleteFailed THEN unscanned ELSE {}
        ELSE found

\* Whatever fails on the way from collector to remover, only images that were
\* collected are deleted, and of those only the ones that are to go.
OnlyCondemnedErased == erased \subseteq found \cap ToGo

\* When the collector exits without an error - and so when the pod succeeds -
\* the remover has gone through every vulnerable image, except those the scanner
\* could not scan and was told to keep.
SuccessMeansRemoved ==
    Exited("collector") =>
        \A i \in found :
            \/ i \in tried
            \/ options.scan /\ i \notin Vulnerable
            \/ options.scan /\ ~options.deleteFailed /\ i \in unscanned

\* Container c cannot go on: a list is still to come, or it has opened a pipe
\* alone.  The remover does not look twice for a pipe it answers through.
Blocked(c) ==
    \E p \in Pipe :
        \/ AtStep(c, Do("read", p)) /\ pipe[p].state # "closed"
        \/ /\ AtStep(c, Do("open", p))
           /\ pipe[p].state = "made" => \A d \in Container \ {c} : ~AtStep(d, Do("open", p))
           /\ pipe[p].state = "absent" => ~(c = "remover" /\ Writes(c, p))

\* The containers never wait for each other all at once, in whatever order they
\* come to their pipes: as long as none has failed, one that runs can go on.
NoneWaitForEachOther ==
    failed = {} /\ faults = 0 /\ (\E c \in Container : Running(c))
    => \E c \in Container : Running(c) /\ ~Blocked(c)

\* Left alone, the containers bring every image that is to go to the remover.
RemovalHappens ==
    <>(\/ faults > 0
       \/ Past("collector", "list") /\ Past("scanner", "scan") /\ ToGo \subseteq tried)

\* A pod does not hang unseen: all containers exit, or one has failed, which the
\* controller finds in their status - unless the scanner could not send its list.
CompletesOrFails ==
    <>(failed # {} \/ faults > 0 \/ \A c \in Container : Exited(c))

\* What the documentation says: the containers run to completion.
RunsToCompletion == <>(\A c \in Container : Exited(c))
=============================================================================
