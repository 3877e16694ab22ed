--------------------------- MODULE PipelineProofs ---------------------------
(***************************************************************************)
(* Proofs about Pipeline: whatever containers die and whatever lists are   *)
(* cut short, only what is to go is deleted, and a pod that succeeds has   *)
(* seen its remover through.                                               *)
(***************************************************************************)
EXTENDS Pipeline, TLAPS

(***************************************************************************)
(* Where the containers are when they take a step.                         *)
(***************************************************************************)
LEMMA AtCollector ==
    ASSUME TypeOK, NEW step, AtStep("collector", step)
    PROVE  \/ pc["collector"] = 1 /\ step = Work("list")
           \/ pc["collector"] = 2 /\ step = Do("make", CollectorOut)
           \/ pc["collector"] = 3 /\ step = Do("open", CollectorOut)
           \/ pc["collector"] = 4 /\ step = Do("write", CollectorOut)
           \/ pc["collector"] = 5 /\ step = Do("make", "eraseCompleteCollect")
           \/ pc["collector"] = 6 /\ step = Do("open", "eraseCompleteCollect")
           \/ pc["collector"] = 7 /\ step = Do("read", "eraseCompleteCollect")
<1>1. pc["collector"] \in 1 .. 10
  BY DEF TypeOK, Container
<1>2. Steps("collector") = CollectorSteps
  BY DEF Steps
<1>3. Len(CollectorSteps) = 7
  BY DEF CollectorSteps
<1>4. pc["collector"] \in 1 .. 7 /\ CollectorSteps[pc["collector"]] = step
  BY <1>1, <1>2, <1>3 DEF AtStep, Running
<1> QED BY <1>4 DEF CollectorSteps

\* The scanner, which takes steps only when there is one.
LEMMA AtScanner ==
    ASSUME TypeOK, NEW step, AtStep("scanner", step)
    PROVE  /\ options.scan
           /\ \/ pc["scanner"] = 1 /\ step = Do("make", "eraseCompleteScan")
              \/ pc["scanner"] = 2 /\ step = Do("open", "collectScan")
              \/ pc["scanner"] = 3 /\ step = Do("read", "collectScan")
              \/ pc["scanner"] = 4 /\ step = Work("scan")
              \/ pc["scanner"] = 5 /\ step = Do("make", "scanErase")
              \/ pc["scanner"] = 6 /\ step = Do("open", "scanErase")
              \/ pc["scanner"] = 7 /\ step = Do("write", "scanErase")
              \/ pc["scanner"] = 8 /\ step = Do("open", "eraseCompleteScan")
              \/ pc["scanner"] = 9 /\ step = Do("read", "eraseCompleteScan")
<1>1. pc["scanner"] \in 1 .. 10
  BY DEF TypeOK, Container
<1>2. Steps("scanner") = IF options.scan THEN ScannerSteps ELSE << >>
  BY DEF Steps
<1>3. Len(ScannerSteps) = 9
  BY DEF ScannerSteps
<1>4. pc["scanner"] <= Len(Steps("scanner")) /\ Steps("scanner")[pc["scanner"]] = step
  BY DEF AtStep, Running
<1>5. options.scan
  BY <1>1, <1>2, <1>4
<1>6. pc["scanner"] \in 1 .. 9 /\ ScannerSteps[pc["scanner"]] = step
  BY <1>1, <1>2, <1>3, <1>4, <1>5
<1> QED BY <1>5, <1>6 DEF ScannerSteps

\* The remover, which is in every pod.
LEMMA AtRemover ==
    ASSUME TypeOK, NEW step, AtStep("remover", step)
    PROVE  \/ pc["remover"] = 1 /\ step = Do("open", "scanErase")
           \/ pc["remover"] = 2 /\ step = Do("read", "scanErase")
           \/ pc["remover"] = 3 /\ step = Work("remove")
           \/ pc["remover"] = 4 /\ step = Do("open", "eraseCompleteCollect")
           \/ pc["remover"] = 5 /\ step = Do("write", "eraseCompleteCollect")
           \/ pc["remover"] = 6 /\ step = Do("open", "eraseCompleteScan")
           \/ pc["remover"] = 7 /\ step = Do("write", "eraseCompleteScan")
<1>1. pc["remover"] \in 1 .. 10
  BY DEF TypeOK, Container
<1>2. Steps("remover") = RemoverSteps
  BY DEF Steps
<1>3. Len(RemoverSteps) = 7
  BY DEF RemoverSteps
<1>4. pc["remover"] \in 1 .. 7 /\ RemoverSteps[pc["remover"]] = step
  BY <1>1, <1>2, <1>3 DEF AtStep, Running
<1> QED BY <1>4 DEF RemoverSteps

\* What the three lemmas say of the steps of one kind.
LEMMA Advances ==
    ASSUME TypeOK, NEW c \in Container, NEW step, AtStep(c, step)
    PROVE  pc[c] \in 1 .. 9
BY AtCollector, AtScanner, AtRemover DEF Container

\* Who opens a pipe, and where in its program.
LEMMA Opens ==
    ASSUME TypeOK, NEW c \in Container, NEW p \in Pipe, AtStep(c, Do("open", p))
    PROVE  \/ c = "collector" /\ pc[c] = 3 /\ p = CollectorOut
           \/ c = "collector" /\ pc[c] = 6 /\ p = "eraseCompleteCollect"
           \/ c = "scanner" /\ options.scan /\ pc[c] = 2 /\ p = "collectScan"
           \/ c = "scanner" /\ options.scan /\ pc[c] = 6 /\ p = "scanErase"
           \/ c = "scanner" /\ options.scan /\ pc[c] = 8 /\ p = "eraseCompleteScan"
           \/ c = "remover" /\ pc[c] = 1 /\ p = "scanErase"
           \/ c = "remover" /\ pc[c] = 4 /\ p = "eraseCompleteCollect"
           \/ c = "remover" /\ pc[c] = 6 /\ p = "eraseCompleteScan"
<1>1. /\ Do("open", p).do = "open" /\ Work("list").do = "list"
      /\ Work("scan").do = "scan" /\ Work("remove").do = "remove"
      /\ \A q : /\ Do("make", q).do = "make" /\ Do("write", q).do = "write"
                /\ Do("read", q).do = "read" /\ Do("open", q).on = q
  BY DEF Do, Work
<1>2. CASE c = "collector"
  BY <1>1, <1>2, AtCollector
<1>3. CASE c = "scanner"
  BY <1>1, <1>3, AtScanner
<1>4. CASE c = "remover"
  BY <1>1, <1>4, AtRemover
<1> QED BY <1>2, <1>3, <1>4 DEF Container

\* Who makes a pipe, and where in its program.
LEMMA Makes ==
    ASSUME TypeOK, NEW c \in Container, NEW p \in Pipe, AtStep(c, Do("make", p))
    PROVE  \/ c = "collector" /\ pc[c] = 2 /\ p = CollectorOut
           \/ c = "collector" /\ pc[c] = 5 /\ p = "eraseCompleteCollect"
           \/ c = "scanner" /\ options.scan /\ pc[c] = 1 /\ p = "eraseCompleteScan"
           \/ c = "scanner" /\ options.scan /\ pc[c] = 5 /\ p = "scanErase"
<1>1. /\ Do("make", p).do = "make" /\ Work("list").do = "list"
      /\ Work("scan").do = "scan" /\ Work("remove").do = "remove"
      /\ \A q : /\ Do("open", q).do = "open" /\ Do("write", q).do = "write"
                /\ Do("read", q).do = "read" /\ Do("make", q).on = q
  BY DEF Do, Work
<1>2. CASE c = "collector"
  BY <1>1, <1>2, AtCollector
<1>3. CASE c = "scanner"
  BY <1>1, <1>3, AtScanner
<1>4. CASE c = "remover"
  BY <1>1, <1>4, AtRemover
<1> QED BY <1>2, <1>3, <1>4 DEF Container

\* Each pipe has one writer, at one place of its program.
LEMMA Sending ==
    ASSUME TypeOK, NEW c \in Container, NEW p \in Pipe, AtStep(c, Do("write", p))
    PROVE  \/ c = "collector" /\ pc[c] = 4 /\ p = CollectorOut
           \/ c = "scanner" /\ options.scan /\ pc[c] = 7 /\ p = "scanErase"
           \/ c = "remover" /\ pc[c] = 5 /\ p = "eraseCompleteCollect"
           \/ c = "remover" /\ pc[c] = 7 /\ p = "eraseCompleteScan"
<1>1. /\ Do("write", p).do = "write" /\ Work("list").do = "list"
      /\ Work("scan").do = "scan" /\ Work("remove").do = "remove"
      /\ \A q : /\ Do("open", q).do = "open" /\ Do("make", q).do = "make"
                /\ Do("read", q).do = "read" /\ Do("write", q).on = q
  BY DEF Do, Work
<1>2. CASE c = "collector"
  BY <1>1, <1>2, AtCollector
<1>3. CASE c = "scanner"
  BY <1>1, <1>3, AtScanner
<1>4. CASE c = "remover"
  BY <1>1, <1>4, AtRemover
<1> QED BY <1>2, <1>3, <1>4 DEF Container

\* Each pipe has one reader, at one place of its program.
LEMMA Receiving ==
    ASSUME TypeOK, NEW c \in Container, NEW p \in Pipe, AtStep(c, Do("read", p))
    PROVE  \/ c = "collector" /\ pc[c] = 7 /\ p = "eraseCompleteCollect"
           \/ c = "scanner" /\ options.scan /\ pc[c] = 3 /\ p = "collectScan"
           \/ c = "scanner" /\ options.scan /\ pc[c] = 9 /\ p = "eraseCompleteScan"
           \/ c = "remover" /\ pc[c] = 2 /\ p = "scanErase"
<1>1. /\ Do("read", p).do = "read" /\ Work("list").do = "list"
      /\ Work("scan").do = "scan" /\ Work("remove").do = "remove"
      /\ \A q : /\ Do("open", q).do = "open" /\ Do("make", q).do = "make"
                /\ Do("write", q).do = "write" /\ Do("read", q).on = q
  BY DEF Do, Work
<1>2. CASE c = "collector"
  BY <1>1, <1>2, AtCollector
<1>3. CASE c = "scanner"
  BY <1>1, <1>3, AtScanner
<1>4. CASE c = "remover"
  BY <1>1, <1>4, AtRemover
<1> QED BY <1>2, <1>3, <1>4 DEF Container

\* Each container works at one place of its program.
LEMMA Working ==
    ASSUME TypeOK, NEW c \in Container, NEW verb \in {"list", "scan", "remove"},
           AtStep(c, Work(verb))
    PROVE  \/ c = "collector" /\ pc[c] = 1 /\ verb = "list"
           \/ c = "scanner" /\ options.scan /\ pc[c] = 4 /\ verb = "scan"
           \/ c = "remover" /\ pc[c] = 3 /\ verb = "remove"
<1>1. /\ \A v : Work(v).do = v
      /\ \A q : /\ Do("open", q).do = "open" /\ Do("make", q).do = "make"
                /\ Do("write", q).do = "write" /\ Do("read", q).do = "read"
  BY DEF Do, Work
<1>2. CASE c = "collector"
  BY <1>1, <1>2, AtCollector
<1>3. CASE c = "scanner"
  BY <1>1, <1>3, AtScanner
<1>4. CASE c = "remover"
  BY <1>1, <1>4, AtRemover
<1> QED BY <1>2, <1>3, <1>4 DEF Container

\* The remover is through after seven steps.
LEMMA RemoverHasSeven == Len(RemoverSteps) = 7
BY DEF RemoverSteps

(***************************************************************************)
(* The type invariant.                                                     *)
(***************************************************************************)
LEMMA InitType == Init => TypeOK
BY PipelineAssumption DEF Init, TypeOK, Absent, Container, Pipe

\* A container that goes on stays in its program or at its end.
LEMMA AdvanceType ==
    ASSUME TypeOK, NEW c \in Container, pc[c] \in 1 .. 9, Advance(c)
    PROVE  pc' \in [Container -> 1 .. 10]
BY DEF TypeOK, Advance

\* What a container sends is a set of images.
LEMMA SendsType == \A c \in Container : TypeOK => Sends(c) \subseteq Image
BY DEF TypeOK, Container, Sends

\* Types: the steps on a pipe.
LEMMA CommunicateType ==
    ASSUME TypeOK, NEW p \in Pipe, Communicate(p)
    PROVE  TypeOK'
<1>1. ASSUME NEW w \in Container, NEW r \in Container, OpenPipe(w, r, p)
      PROVE  TypeOK'
  <2>1. pc[w] \in 1 .. 9 /\ pc[r] \in 1 .. 9
    BY <1>1, Advances DEF OpenPipe
  <2> QED BY <1>1, <2>1 DEF OpenPipe, TypeOK
<1>2. ASSUME NEW c \in Container, MakePipe(c, p)
      PROVE  TypeOK'
  <2>1. pc' \in [Container -> 1 .. 10]
    BY <1>2, Advances, AdvanceType DEF MakePipe
  <2> QED BY <1>2, <2>1 DEF MakePipe, TypeOK
<1>3. ASSUME NEW c \in Container, PipeIsMissing(c, p)
      PROVE  TypeOK'
  <2>1. pc' \in [Container -> 1 .. 10]
    <3>1. Len(RemoverSteps) + 1 \in 1 .. 10
      BY RemoverHasSeven
    <3> QED BY <1>3, <3>1 DEF PipeIsMissing, TypeOK
  <2> QED BY <1>3, <2>1 DEF PipeIsMissing, TypeOK, Fail
<1>4. ASSUME NEW c \in Container, WritePipe(c, p)
      PROVE  TypeOK'
  <2>1. pc' \in [Container -> 1 .. 10]
    BY <1>4, Advances, AdvanceType DEF WritePipe
  <2> QED BY <1>4, <2>1, SendsType DEF WritePipe, TypeOK
<1>5. ASSUME NEW c \in Container, WriteBreaks(c, p)
      PROVE  TypeOK'
  <2>1. pc' \in [Container -> 1 .. 10]
    BY <1>5, Advances, AdvanceType DEF WriteBreaks, TypeOK
  <2> QED BY <1>5, <2>1 DEF WriteBreaks, TypeOK, Fail
<1>6. ASSUME NEW c \in Container, ReadPipe(c, p)
      PROVE  TypeOK'
  <2>1. pc' \in [Container -> 1 .. 10]
    BY <1>6, Advances, AdvanceType DEF ReadPipe, TypeOK
  <2>2. todo' \in [Container -> SUBSET Image] /\ failed' \subseteq Container
    BY <1>6 DEF ReadPipe, TypeOK, Fail
  <2> QED BY <1>6, <2>1, <2>2 DEF ReadPipe, TypeOK
<1> QED BY <1>1, <1>2, <1>3, <1>4, <1>5, <1>6 DEF Communicate

\* What the collector collects is a set of images.
LEMMA CollectedListed ==
    \A listed, containers \in SUBSET Image : Collected(listed, containers) \subseteq Image
BY DEF Collected, NonRunning

\* Types: the work of the three containers.
LEMMA ProcessType ==
    ASSUME TypeOK, Process
    PROVE  TypeOK'
<1>1. CASE Collect
  <2>1. pc' \in [Container -> 1 .. 10]
    BY <1>1, Advances, AdvanceType DEF Collect, Container
  <2>2. found' \subseteq Image
    BY <1>1, CollectedListed DEF Collect
  <2> QED BY <1>1, <2>1, <2>2 DEF Collect, TypeOK
<1>2. CASE ScanEnds
  <2>1. pc' \in [Container -> 1 .. 10]
    BY <1>2, Advances, AdvanceType DEF ScanEnds, Container
  <2> QED BY <1>2, <2>1 DEF ScanEnds, TypeOK, Container
<1>3. CASE RemoveEnds
  <2>1. pc' \in [Container -> 1 .. 10]
    BY <1>3, Advances, AdvanceType DEF RemoveEnds, Container
  <2> QED BY <1>3, <2>1 DEF RemoveEnds, TypeOK
<1>4. ASSUME NEW i \in Image, ScanCompletes(i)
      PROVE  TypeOK'
  BY <1>4 DEF ScanCompletes, TypeOK, Container
<1>5. ASSUME NEW i \in Image, ScanFails(i)
      PROVE  TypeOK'
  BY <1>5 DEF ScanFails, TypeOK, Container
<1>6. ASSUME NEW i \in Image, Remove(i)
      PROVE  TypeOK'
  BY <1>6 DEF Remove, TypeOK, Container
<1> QED BY <1>1, <1>2, <1>3, <1>4, <1>5, <1>6 DEF Process

\* Types: a container that dies or fails.
LEMMA FaultType ==
    ASSUME TypeOK, Fault
    PROVE  TypeOK'
<1>1. CASE SendFails
  <2>1. pc["scanner"] = 5
    <3>1. "scanner" \in Container /\ "scanErase" \in Pipe
      BY DEF Container, Pipe
    <3>2. Do("make", "scanErase").on # "eraseCompleteScan"
      BY DEF Do
    <3>3. Do("make", "eraseCompleteScan").on = "eraseCompleteScan"
      BY DEF Do
    <3>4. pc["scanner"] \in {1, 5}
      BY <1>1, <3>1, Makes DEF SendFails
    <3> QED BY <1>1, <3>2, <3>3, <3>4, AtScanner DEF SendFails
  <2>2. pc' \in [Container -> 1 .. 10]
    BY <1>1, <2>1 DEF SendFails, TypeOK, Container
  <2> QED BY <1>1, <2>2, PipelineAssumption DEF SendFails, TypeOK
<1>2. ASSUME NEW c \in Container, Die(c)
      PROVE  TypeOK'
  <2>1. pipe' \in [Pipe -> [state : {"absent", "made", "open", "closed"},
                            whole : BOOLEAN, images : SUBSET Image]]
    BY <1>2 DEF Die, TypeOK
  <2>2. faults' \in 0 .. MaxFaults
    BY <1>2, PipelineAssumption DEF Die, TypeOK
  <2> QED BY <1>2, <2>1, <2>2 DEF Die, TypeOK, Fail
<1> QED BY <1>1, <1>2 DEF Fault

\* Types: every step.
LEMMA NextType == TypeOK /\ [Next]_vars => TypeOK'
<1> SUFFICES ASSUME TypeOK, [Next]_vars
             PROVE  TypeOK'
  OBVIOUS
<1>1. CASE UNCHANGED vars
  BY <1>1 DEF vars, TypeOK
<1> QED BY <1>1, CommunicateType, ProcessType, FaultType DEF Next, Proceed

\* Types: every container is at one of its steps, and every pipe and list
\* holds images only, whatever fails.
THEOREM TypeCorrect == Spec => []TypeOK
BY InitType, NextType, PTL DEF Spec

(***************************************************************************)
(* What flows through the pipes.                                           *)
(*                                                                         *)
(* Lists and pipes hold only what was collected, and what is on its way to *)
(* the remover is to go.  Until the collector has listed the images there  *)
(* is nothing to hold.                                                     *)
(***************************************************************************)
Flow ==
    /\ pc["collector"] = 1 => found = {}
    /\ \A p \in Pipe : pipe[p].images \subseteq found
    /\ \A c \in Container : todo[c] \subseteq found
    /\ condemned \subseteq found /\ unscanned \subseteq found
    /\ pipe["scanErase"].images \subseteq ToGo /\ todo["remover"] \subseteq ToGo
    /\ erased \subseteq found \cap ToGo

\* At the start nothing has been listed, sent or deleted.
LEMMA InitFlow == Init => Flow
BY DEF Init, Flow, Absent, Container, Pipe, ToGo

\* The containers and the pipes by name.
LEMMA PodNames ==
    /\ "collector" \in Container /\ "scanner" \in Container /\ "remover" \in Container
    /\ "collectScan" \in Pipe /\ "scanErase" \in Pipe
    /\ "eraseCompleteCollect" \in Pipe /\ "eraseCompleteScan" \in Pipe
BY DEF Container, Pipe

\* What is sent was collected, and what is sent to the remover is to go.
LEMMA SendsFlow ==
    ASSUME TypeOK, Flow, NEW c \in Container, NEW p \in Pipe, AtStep(c, Do("write", p))
    PROVE  Sends(c) \subseteq found /\ (p = "scanErase" => Sends(c) = ToGo)
<1>1. CASE c = "collector"
  BY <1>1, Sending DEF Sends, CollectorOut, ToGo
<1>2. CASE c = "scanner"
  BY <1>2, Sending DEF Sends, ToGo, Flow
<1>3. CASE c = "remover"
  BY <1>3, Sending DEF Sends
<1> QED BY <1>1, <1>2, <1>3 DEF Container

\* A step that leaves the lists and what is in the pipes alone.
LEMMA FlowKept ==
    ASSUME TypeOK, Flow,
           pc'["collector"] = 1 => pc["collector"] = 1,
           \A p \in Pipe : pipe'[p].images = pipe[p].images,
           UNCHANGED <<options, todo, condemned, unscanned, found, erased>>
    PROVE  Flow'
BY PodNames DEF Flow, ToGo

\* A list that is sent, whole or cut short, is part of what its sender has.
LEMMA CommunicateFlow ==
    ASSUME TypeOK, Flow, NEW p \in Pipe, Communicate(p)
    PROVE  Flow'
<1>0. TypeOK' BY CommunicateType
<1>1. ASSUME NEW w \in Container, NEW r \in Container, OpenPipe(w, r, p)
      PROVE  Flow'
  <2>1. pc'["collector"] = 1 => pc["collector"] = 1
    BY <1>1, PodNames, Opens DEF OpenPipe, TypeOK
  <2>2. \A q \in Pipe : pipe'[q].images = pipe[q].images
    BY <1>1 DEF OpenPipe, TypeOK
  <2> QED BY <1>1, <2>1, <2>2, FlowKept DEF OpenPipe
<1>2. ASSUME NEW c \in Container, MakePipe(c, p)
      PROVE  Flow'
  <2>1. pc'["collector"] = 1 => pc["collector"] = 1
    BY <1>2, PodNames, Makes DEF MakePipe, Advance, TypeOK
  <2>2. \A q \in Pipe : pipe'[q].images = pipe[q].images
    BY <1>2 DEF MakePipe, TypeOK
  <2> QED BY <1>2, <2>1, <2>2, FlowKept DEF MakePipe
<1>3. ASSUME NEW c \in Container, PipeIsMissing(c, p)
      PROVE  Flow'
  <2>1. pc'["collector"] = 1 => pc["collector"] = 1
    BY <1>3, PodNames DEF PipeIsMissing, TypeOK
  <2>2. \A q \in Pipe : pipe'[q].images = pipe[q].images
    BY <1>3 DEF PipeIsMissing
  <2> QED BY <1>3, <2>1, <2>2, FlowKept DEF PipeIsMissing
<1>4. ASSUME NEW c \in Container, WritePipe(c, p)
      PROVE  Flow'
  <2>1. pc'["collector"] # 1 \/ (pc'["collector"] = 1 /\ pc["collector"] = 1)
    BY <1>4, PodNames, Sending DEF WritePipe, Advance, TypeOK
  <2>2. \A q \in Pipe : pipe'[q].images = IF q = p THEN Sends(c) ELSE pipe[q].images
    BY <1>4 DEF WritePipe, TypeOK
  <2>3. Sends(c) \subseteq found /\ (p = "scanErase" => Sends(c) = ToGo)
    BY <1>4, SendsFlow DEF WritePipe
  <2>4. UNCHANGED <<options, todo, condemned, unscanned, found, erased>>
    BY <1>4 DEF WritePipe
  <2> QED BY <2>1, <2>2, <2>3, <2>4, PodNames DEF Flow, ToGo
<1>5. ASSUME NEW c \in Container, WriteBreaks(c, p)
      PROVE  Flow'
  <2>1. pc'["collector"] = 1 => pc["collector"] = 1
    BY <1>5, PodNames, Sending DEF WriteBreaks, Advance, TypeOK
  <2>2. \A q \in Pipe : pipe'[q].images = pipe[q].images
    BY <1>5 DEF WriteBreaks
  <2> QED BY <1>5, <2>1, <2>2, FlowKept DEF WriteBreaks
<1>6. ASSUME NEW c \in Container, ReadPipe(c, p)
      PROVE  Flow'
  <2>1. pc'["collector"] = 1 => pc["collector"] = 1
    BY <1>6, PodNames, Receiving DEF ReadPipe, Advance, TypeOK
  <2>2. \A d \in Container : todo'[d] = todo[d] \/ (d = c /\ todo'[d] = pipe[p].images)
    BY <1>6 DEF ReadPipe, TypeOK
  <2>3. c = "remover" => p = "scanErase"
    BY <1>6, Receiving DEF ReadPipe
  <2>4. UNCHANGED <<options, pipe, condemned, unscanned, found, erased>>
    BY <1>6 DEF ReadPipe
  <2> QED BY <2>1, <2>2, <2>3, <2>4, PodNames DEF Flow, ToGo
<1> QED BY <1>1, <1>2, <1>3, <1>4, <1>5, <1>6 DEF Communicate

\* A container finds only what was listed, and deletes only what may go.
LEMMA ProcessFlow ==
    ASSUME TypeOK, Flow, Process
    PROVE  Flow'
<1>1. CASE Collect
  <2>1. pc["collector"] = 1
    BY <1>1, PodNames, Working DEF Collect
  <2>2. pc'["collector"] = 2
    BY <1>1, <2>1, PodNames DEF Collect, Advance, TypeOK
  <2>3. UNCHANGED <<options, pipe, todo, condemned, unscanned, erased>>
    BY <1>1 DEF Collect
  <2>4. /\ \A p \in Pipe : pipe[p].images = {}
        /\ \A c \in Container : todo[c] = {}
        /\ condemned = {} /\ unscanned = {} /\ erased = {}
    BY <2>1 DEF Flow
  <2> QED BY <2>2, <2>3, <2>4, PodNames DEF Flow
<1>2. CASE ScanEnds
  <2>1. pc'["collector"] = pc["collector"]
    BY <1>2, PodNames DEF ScanEnds, Advance, TypeOK
  <2>2. /\ unscanned' = unscanned \cup todo["scanner"]
        /\ \A c \in Container : todo'[c] = IF c = "scanner" THEN {} ELSE todo[c]
    BY <1>2, PodNames DEF ScanEnds, TypeOK
  <2>3. UNCHANGED <<options, pipe, condemned, found, erased>>
    BY <1>2 DEF ScanEnds
  <2> QED BY <2>1, <2>2, <2>3, PodNames DEF Flow, ToGo
<1>3. CASE RemoveEnds
  <2>1. pc'["collector"] = pc["collector"]
    BY <1>3, PodNames DEF RemoveEnds, Advance, TypeOK
  <2> QED BY <1>3, <2>1, FlowKept DEF RemoveEnds
<1>4. ASSUME NEW i \in Image, ScanCompletes(i)
      PROVE  Flow'
  <2>1. /\ i \in todo["scanner"]
        /\ condemned \subseteq condemned' /\ condemned' \subseteq condemned \cup {i}
        /\ \A c \in Container : todo'[c] \subseteq todo[c]
    BY <1>4, PodNames DEF ScanCompletes, Scanning, TypeOK
  <2>2. UNCHANGED <<options, pc, pipe, unscanned, found, erased>>
    BY <1>4 DEF ScanCompletes
  <2> QED BY <2>1, <2>2, PodNames DEF Flow, ToGo
<1>5. ASSUME NEW i \in Image, ScanFails(i)
      PROVE  Flow'
  <2>1. /\ i \in todo["scanner"] /\ unscanned' = unscanned \cup {i}
        /\ \A c \in Container : todo'[c] \subseteq todo[c]
    BY <1>5, PodNames DEF ScanFails, Scanning, TypeOK
  <2>2. UNCHANGED <<options, pc, pipe, condemned, found, erased>>
    BY <1>5 DEF ScanFails
  <2> QED BY <2>1, <2>2, PodNames DEF Flow, ToGo
<1>6. ASSUME NEW i \in Image, Remove(i)
      PROVE  Flow'
  <2>1. /\ i \in todo["remover"] /\ erased' \subseteq erased \cup {i}
        /\ \A c \in Container : todo'[c] \subseteq todo[c]
    BY <1>6, PodNames DEF Remove, TypeOK
  <2>2. UNCHANGED <<options, pc, pipe, condemned, unscanned, found>>
    BY <1>6 DEF Remove
  <2> QED BY <2>1, <2>2, PodNames DEF Flow, ToGo
<1> QED BY <1>1, <1>2, <1>3, <1>4, <1>5, <1>6 DEF Process

\* A container that dies or fails to send has sent nothing more.
LEMMA FaultFlow ==
    ASSUME TypeOK, Flow, Fault
    PROVE  Flow'
<1>1. CASE SendFails
  <2>1. pc'["collector"] = pc["collector"]
    BY <1>1, PodNames DEF SendFails, TypeOK
  <2> QED BY <1>1, <2>1, FlowKept DEF SendFails
<1>2. ASSUME NEW c \in Container, Die(c)
      PROVE  Flow'
  <2>1. \A q \in Pipe : pipe'[q].images = pipe[q].images
    BY <1>2 DEF Die, TypeOK
  <2> QED BY <1>2, <2>1, FlowKept DEF Die
<1> QED BY <1>1, <1>2 DEF Fault

\* Every step keeps the lists within what may go.
LEMMA NextFlow == TypeOK /\ Flow /\ [Next]_vars => Flow'
<1> SUFFICES ASSUME TypeOK, Flow, [Next]_vars
             PROVE  Flow'
  OBVIOUS
<1>1. CASE UNCHANGED vars
  BY <1>1 DEF vars, Flow, ToGo
<1> QED BY <1>1, CommunicateFlow, ProcessFlow, FaultFlow DEF Next, Proceed

\* Whatever containers die and whatever lists cannot be sent, the remover
\* deletes only what the collector collected, and of that only what the scanner
\* condemned, or could not scan and was not told to keep.
THEOREM OnlyCondemnedGoes == Spec => []OnlyCondemnedErased
<1>1. Flow => OnlyCondemnedErased
  BY DEF Flow, OnlyCondemnedErased
<1> QED BY <1>1, InitType, InitFlow, NextType, NextFlow, PTL DEF Spec

(***************************************************************************)
(* The handover.                                                           *)
(*                                                                         *)
(* Each list that is whole is everything its sender had, and each container*)
(* that is past a pipe has taken up all that was in it: found, then judged,*)
(* then tried, before the word "complete" goes back.                       *)
(***************************************************************************)
Judged == condemned \cup unscanned \cup (Image \ Vulnerable)

Listed == pipe["collectScan"].whole =>
              pc["collector"] >= 5 /\ pipe["collectScan"].images = found

Scanned == options.scan /\ pc["scanner"] >= 4 =>
              /\ pipe["collectScan"].whole
              /\ \A i \in found :
                    i \in Judged \/ (pc["scanner"] = 4 /\ i \in todo["scanner"])

Ordered == pipe["scanErase"].whole =>
              /\ pipe["scanErase"].images = ToGo
              /\ IF options.scan THEN pc["scanner"] >= 8 ELSE pc["collector"] >= 5

Removed ==
    /\ pc["remover"] >= 3 => pipe["scanErase"].whole
    /\ pc["remover"] = 3 => pipe["scanErase"].images \subseteq tried \cup todo["remover"]
    /\ pc["remover"] >= 4 => pipe["scanErase"].images \subseteq tried

Answered ==
    /\ pipe["eraseCompleteCollect"].whole => pc["remover"] >= 6
    /\ pc["collector"] >= 8 => pipe["eraseCompleteCollect"].whole

Handover == Listed /\ Scanned /\ Ordered /\ Removed /\ Answered

\* At the start no container is past its first step.
LEMMA InitHandover == Init => Handover
BY DEF Init, Handover, Listed, Scanned, Ordered, Removed, Answered, Absent, Container, Pipe

\* A step that leaves the lists alone and takes no container past a handover.
LEMMA HandoverKept ==
    ASSUME TypeOK, TypeOK', Handover,
           pc["collector"] <= pc'["collector"],
           pc["collector"] <= 7 => pc'["collector"] <= 7,
           pc["scanner"] <= pc'["scanner"],
           options.scan /\ pc["scanner"] <= 3 => pc'["scanner"] <= 3,
           pc["scanner"] = 4 => pc'["scanner"] = 4,
           pc["remover"] <= pc'["remover"],
           pc["remover"] <= 2 => pc'["remover"] <= 2,
           pc["remover"] = 3 => pc'["remover"] = 3,
           \A p \in Pipe : /\ pipe'[p].images = pipe[p].images
                           /\ pipe'[p].whole = pipe[p].whole,
           UNCHANGED <<options, condemned, unscanned, found, tried>>,
           pc["scanner"] = 4 => todo'["scanner"] = todo["scanner"],
           pc["remover"] = 3 => todo'["remover"] = todo["remover"]
    PROVE  Handover'
<1>1. /\ pc["collector"] \in 1 .. 10 /\ pc'["collector"] \in 1 .. 10
      /\ pc["scanner"] \in 1 .. 10 /\ pc'["scanner"] \in 1 .. 10
      /\ pc["remover"] \in 1 .. 10 /\ pc'["remover"] \in 1 .. 10
  BY PodNames DEF TypeOK
<1>2. ToGo' = ToGo /\ Judged' = Judged
  BY DEF ToGo, Judged
<1>3. Listed'
  BY <1>1, PodNames DEF Handover, Listed
<1>4. Scanned'
  BY <1>1, <1>2, PodNames DEF Handover, Scanned
<1>5. Ordered'
  BY <1>1, <1>2, PodNames DEF Handover, Ordered
<1>6. Removed'
  BY <1>1, PodNames DEF Handover, Removed
<1>7. Answered'
  BY <1>1, PodNames DEF Handover, Answered
<1> QED BY <1>3, <1>4, <1>5, <1>6, <1>7 DEF Handover

\* When a pipe is opened, its two ends go on together.
LEMMA OpenHandover ==
    ASSUME TypeOK, TypeOK', Handover, NEW p \in Pipe,
           NEW w \in Container, NEW r \in Container, OpenPipe(w, r, p)
    PROVE  Handover'
<1>1. \A q \in Pipe : pipe'[q].images = pipe[q].images /\ pipe'[q].whole = pipe[q].whole
  BY DEF OpenPipe, TypeOK
<1>2. \A c \in Container : \/ pc'[c] = pc[c]
                           \/ pc'[c] = pc[c] + 1 /\ AtStep(c, Do("open", p))
  BY DEF OpenPipe, TypeOK
<1>3. \A c \in Container : pc[c] \in 1 .. 10
  BY DEF TypeOK
<1>4. \/ pc'["collector"] = pc["collector"]
      \/ pc'["collector"] = pc["collector"] + 1 /\ pc["collector"] \in {3, 6}
  BY <1>2, Opens, PodNames
<1>5. \/ pc'["scanner"] = pc["scanner"]
      \/ pc'["scanner"] = pc["scanner"] + 1 /\ pc["scanner"] \in {2, 6, 8}
  BY <1>2, Opens, PodNames
<1>6. \/ pc'["remover"] = pc["remover"]
      \/ pc'["remover"] = pc["remover"] + 1 /\ pc["remover"] \in {1, 4, 6}
  BY <1>2, Opens, PodNames
<1> QED BY <1>1, <1>3, <1>4, <1>5, <1>6, HandoverKept, PodNames DEF OpenPipe

\* A container that makes a pipe goes on to open it.
LEMMA MakeHandover ==
    ASSUME TypeOK, TypeOK', Handover, NEW p \in Pipe, NEW c \in Container, MakePipe(c, p)
    PROVE  Handover'
<1>1. \A q \in Pipe : pipe'[q].images = pipe[q].images /\ pipe'[q].whole = pipe[q].whole
  BY DEF MakePipe, TypeOK
<1>2. \A d \in Container : pc'[d] = IF d = c THEN pc[d] + 1 ELSE pc[d]
  BY DEF MakePipe, Advance, TypeOK
<1>3. \A d \in Container : pc[d] \in 1 .. 10
  BY DEF TypeOK
<1>4. \/ c = "collector" /\ pc[c] \in {2, 5}
      \/ c = "scanner" /\ pc[c] \in {1, 5}
  BY Makes DEF MakePipe
<1> QED BY <1>1, <1>2, <1>3, <1>4, HandoverKept, PodNames DEF MakePipe

\* A remover that finds no pipe fails, or is through when it is the scanner's.
LEMMA MissingHandover ==
    ASSUME TypeOK, TypeOK', Handover, NEW p \in Pipe, NEW c \in Container,
           PipeIsMissing(c, p)
    PROVE  Handover'
<1>1. \A d \in Container : pc[d] \in 1 .. 10
  BY DEF TypeOK
<1>2. \/ UNCHANGED pc
      \/ /\ pc["remover"] = 6
         /\ \A d \in Container : pc'[d] = IF d = "remover" THEN 8 ELSE pc[d]
  <2>1. CASE p = "eraseCompleteScan"
    <3>1. /\ Do("open", "scanErase").on = "scanErase"
          /\ Do("open", "eraseCompleteCollect").on = "eraseCompleteCollect"
          /\ Do("open", "eraseCompleteScan").on = "eraseCompleteScan"
          /\ Do("open", "eraseCompleteScan").do = "open"
      BY DEF Do
    <3>2. pc["remover"] \in {1, 4, 6} /\ AtStep("remover", Do("open", "eraseCompleteScan"))
      BY <2>1, Opens, PodNames DEF PipeIsMissing
    <3>3. pc["remover"] = 6
      BY <3>1, <3>2, AtRemover
    <3>4. Len(RemoverSteps) + 1 = 8
      BY RemoverHasSeven
    <3> QED BY <2>1, <3>3, <3>4 DEF PipeIsMissing, TypeOK
  <2> QED BY <2>1 DEF PipeIsMissing
<1> QED BY <1>1, <1>2, HandoverKept, PodNames DEF PipeIsMissing

\* A writer whose reader has died fails, or goes on if it is the scanner.
LEMMA BreakHandover ==
    ASSUME TypeOK, TypeOK', Handover, NEW p \in Pipe, NEW c \in Container, WriteBreaks(c, p)
    PROVE  Handover'
<1>1. \A d \in Container : pc[d] \in 1 .. 10
  BY DEF TypeOK
<1>2. \/ UNCHANGED pc
      \/ /\ c = "scanner" /\ pc[c] = 7
         /\ \A d \in Container : pc'[d] = IF d = c THEN pc[d] + 1 ELSE pc[d]
  BY Sending DEF WriteBreaks, Advance, TypeOK
<1> QED BY <1>1, <1>2, HandoverKept, PodNames DEF WriteBreaks

\* A container that dies is not one that has succeeded.
LEMMA DieHandover ==
    ASSUME TypeOK, TypeOK', Handover, NEW c \in Container, Die(c)
    PROVE  Handover'
<1>1. \A q \in Pipe : pipe'[q].images = pipe[q].images /\ pipe'[q].whole = pipe[q].whole
  BY DEF Die, TypeOK
<1>2. \A d \in Container : pc[d] \in 1 .. 10
  BY DEF TypeOK
<1> QED BY <1>1, <1>2, HandoverKept, PodNames DEF Die

\* Only a scanner that has scanned can fail to send.
LEMMA SendFailsAtFive == TypeOK /\ SendFails => pc["scanner"] = 5
<1> SUFFICES ASSUME TypeOK, SendFails PROVE pc["scanner"] = 5
  OBVIOUS
<1>1. /\ Do("make", "scanErase").on = "scanErase"
      /\ Do("make", "eraseCompleteScan").on = "eraseCompleteScan"
  BY DEF Do
<1>2. pc["scanner"] \in {1, 5}
  BY PodNames, Makes DEF SendFails
<1> QED BY <1>1, <1>2, AtScanner DEF SendFails

\* A scanner that fails to send goes on to wait for the remover.
LEMMA SendFailsHandover ==
    ASSUME TypeOK, TypeOK', Handover, SendFails
    PROVE  Handover'
<1>1. \A d \in Container : pc[d] \in 1 .. 10
  BY DEF TypeOK
<1>2. \A d \in Container : pc'[d] = IF d = "scanner" THEN 8 ELSE pc[d]
  BY SendFailsAtFive, PodNames DEF SendFails, TypeOK
<1> QED BY <1>1, <1>2, SendFailsAtFive, HandoverKept, PodNames DEF SendFails

\* A list is complete before its writer is past it.
LEMMA WriteHandover ==
    ASSUME TypeOK, TypeOK', Handover, NEW p \in Pipe, NEW c \in Container, WritePipe(c, p)
    PROVE  Handover'
<1>1. /\ pipe'[p].whole /\ pipe'[p].images = Sends(c)
      /\ \A q \in Pipe : q # p => pipe'[q] = pipe[q]
  BY DEF WritePipe, TypeOK
<1>2. \A d \in Container : pc'[d] = IF d = c THEN pc[d] + 1 ELSE pc[d]
  BY DEF WritePipe, Advance, TypeOK
<1>3. \A d \in Container : pc[d] \in 1 .. 10
  BY DEF TypeOK
<1>4. UNCHANGED <<options, todo, condemned, unscanned, found, tried>>
  BY DEF WritePipe
<1>5. ToGo' = ToGo /\ Judged' = Judged
  BY <1>4 DEF ToGo, Judged
<1>6. CASE c = "collector" /\ pc[c] = 4 /\ p = CollectorOut
  <2>1. Sends(c) = found
    BY <1>6 DEF Sends
  <2>2. Listed'
    BY <1>1, <1>2, <1>3, <1>4, <1>6, <2>1, PodNames DEF Listed, Handover
  <2>3. Scanned'
    BY <1>1, <1>2, <1>3, <1>4, <1>5, <1>6, PodNames DEF Scanned, Handover, CollectorOut
  <2>4. Ordered'
    BY <1>1, <1>2, <1>3, <1>4, <1>5, <1>6, <2>1, PodNames
       DEF Ordered, Handover, CollectorOut, ToGo
  <2>5. Removed'
    <3>1. p # "scanErase" \/ ~pipe["scanErase"].whole
      BY <1>6 DEF Ordered, Handover, CollectorOut
    <3> QED BY <1>1, <1>2, <1>3, <1>4, <1>6, <3>1, PodNames DEF Removed, Handover
  <2>6. Answered'
    BY <1>1, <1>2, <1>3, <1>6, PodNames DEF Answered, Handover, CollectorOut
  <2> QED BY <2>2, <2>3, <2>4, <2>5, <2>6 DEF Handover
<1>7. CASE c = "scanner" /\ options.scan /\ pc[c] = 7 /\ p = "scanErase"
  <2>1. Sends(c) = ToGo
    BY <1>7 DEF Sends, ToGo
  <2>2. Listed'
    BY <1>1, <1>2, <1>3, <1>4, <1>7, PodNames DEF Listed, Handover
  <2>3. Scanned'
    BY <1>1, <1>2, <1>3, <1>4, <1>5, <1>7, PodNames DEF Scanned, Handover
  <2>4. Ordered'
    BY <1>1, <1>2, <1>3, <1>4, <1>5, <1>7, <2>1, PodNames DEF Ordered, Handover
  <2>5. Removed'
    <3>1. ~pipe["scanErase"].whole
      BY <1>7 DEF Ordered, Handover
    <3> QED BY <1>1, <1>2, <1>3, <1>4, <1>7, <3>1, PodNames DEF Removed, Handover
  <2>6. Answered'
    BY <1>1, <1>2, <1>3, <1>7, PodNames DEF Answered, Handover
  <2> QED BY <2>2, <2>3, <2>4, <2>5, <2>6 DEF Handover
<1>8. CASE /\ c = "remover"
           /\ \/ pc[c] = 5 /\ p = "eraseCompleteCollect"
              \/ pc[c] = 7 /\ p = "eraseCompleteScan"
  <2>1. Listed' /\ Scanned'
    BY <1>1, <1>2, <1>3, <1>4, <1>5, <1>8, PodNames DEF Listed, Scanned, Handover
  <2>2. Ordered'
    BY <1>1, <1>2, <1>3, <1>4, <1>5, <1>8, PodNames DEF Ordered, Handover
  <2>3. Removed'
    BY <1>1, <1>2, <1>3, <1>4, <1>8, PodNames DEF Removed, Handover
  <2>4. Answered'
    BY <1>1, <1>2, <1>3, <1>8, PodNames DEF Answered, Handover
  <2> QED BY <2>1, <2>2, <2>3, <2>4 DEF Handover
<1> QED BY <1>6, <1>7, <1>8, Sending DEF WritePipe

\* A reader goes on only after its writer has written.
LEMMA ReadHandover ==
    ASSUME TypeOK, TypeOK', Handover, NEW p \in Pipe, NEW c \in Container, ReadPipe(c, p)
    PROVE  Handover'
<1>1. \A d \in Container : pc[d] \in 1 .. 10
  BY DEF TypeOK
<1>2. UNCHANGED <<options, pipe, condemned, unscanned, found, tried>>
  BY DEF ReadPipe
<1>3. CASE ~Accepts(c, p)
  BY <1>1, <1>2, <1>3, HandoverKept, PodNames DEF ReadPipe
<1>4. CASE Accepts(c, p)
  <2>1. /\ \A d \in Container : pc'[d] = IF d = c THEN pc[d] + 1 ELSE pc[d]
        /\ \A d \in Container : todo'[d] = IF d = c THEN pipe[p].images ELSE todo[d]
    BY <1>4 DEF ReadPipe, Advance, TypeOK
  <2>2. (c = "scanner" /\ p = "eraseCompleteScan") \/ pipe[p].whole
    BY <1>4 DEF Accepts
  <2>3. ToGo' = ToGo /\ Judged' = Judged
    BY <1>2 DEF ToGo, Judged
  <2>4. Listed' /\ Ordered'
    BY <1>1, <1>2, <2>1, <2>3, PodNames DEF Listed, Ordered, Handover
  <2>5. CASE c = "collector" /\ pc[c] = 7 /\ p = "eraseCompleteCollect"
    <3>1. Scanned' /\ Removed'
      BY <1>1, <1>2, <2>1, <2>3, <2>5, PodNames DEF Scanned, Removed, Handover
    <3>2. Answered'
      BY <1>1, <1>2, <2>1, <2>2, <2>5, PodNames DEF Answered, Handover
    <3> QED BY <2>4, <3>1, <3>2 DEF Handover
  <2>6. CASE c = "scanner" /\ options.scan /\ pc[c] = 3 /\ p = "collectScan"
    <3>1. Scanned'
      BY <1>1, <1>2, <2>1, <2>2, <2>3, <2>6, PodNames DEF Scanned, Listed, Handover
    <3>2. Removed' /\ Answered'
      BY <1>1, <1>2, <2>1, <2>6, PodNames DEF Removed, Answered, Handover
    <3> QED BY <2>4, <3>1, <3>2 DEF Handover
  <2>7. CASE c = "scanner" /\ options.scan /\ pc[c] = 9 /\ p = "eraseCompleteScan"
    <3>1. Scanned'
      BY <1>1, <1>2, <2>1, <2>3, <2>7, PodNames DEF Scanned, Handover
    <3>2. Removed' /\ Answered'
      BY <1>1, <1>2, <2>1, <2>7, PodNames DEF Removed, Answered, Handover
    <3> QED BY <2>4, <3>1, <3>2 DEF Handover
  <2>8. CASE c = "remover" /\ pc[c] = 2 /\ p = "scanErase"
    <3>1. Scanned'
      BY <1>1, <1>2, <2>1, <2>3, <2>8, PodNames DEF Scanned, Handover
    <3>2. Removed'
      BY <1>1, <1>2, <2>1, <2>2, <2>8, PodNames DEF Removed, Handover
    <3>3. Answered'
      BY <1>1, <1>2, <2>1, <2>8, PodNames DEF Answered, Handover
    <3> QED BY <2>4, <3>1, <3>2, <3>3 DEF Handover
  <2> QED BY <2>5, <2>6, <2>7, <2>8, Receiving DEF ReadPipe
<1> QED BY <1>3, <1>4

\* Every step on a pipe keeps the order of the hand-overs.
LEMMA CommunicateHandover ==
    ASSUME TypeOK, TypeOK', Handover, NEW p \in Pipe, Communicate(p)
    PROVE  Handover'
BY OpenHandover, MakeHandover, MissingHandover, BreakHandover, WriteHandover, ReadHandover
   DEF Communicate

\* Until the collector has listed the images, no list is whole.
LEMMA CollectHandover ==
    ASSUME TypeOK, TypeOK', Handover, Collect
    PROVE  Handover'
<1>1. pc["collector"] = 1
  BY Working, PodNames DEF Collect
<1>2. /\ ~pipe["collectScan"].whole /\ ~pipe["scanErase"].whole
      /\ ~(options.scan /\ pc["scanner"] >= 4)
  <2>1. pc["scanner"] \in 1 .. 10
    BY PodNames DEF TypeOK
  <2>2. ~pipe["collectScan"].whole
    BY <1>1 DEF Handover, Listed
  <2>3. ~(options.scan /\ pc["scanner"] >= 4)
    BY <2>2 DEF Handover, Scanned
  <2>4. ~pipe["scanErase"].whole
    BY <1>1, <2>1, <2>3 DEF Handover, Ordered
  <2> QED BY <2>2, <2>3, <2>4
<1>3. /\ UNCHANGED <<options, pipe, todo, tried>>
      /\ \A c \in Container : pc'[c] = IF c = "collector" THEN pc[c] + 1 ELSE pc[c]
  BY DEF Collect, Advance, TypeOK
<1>4. \A c \in Container : pc[c] \in 1 .. 10
  BY DEF TypeOK
<1>5. Listed' /\ Scanned' /\ Ordered'
  BY <1>2, <1>3, PodNames DEF Listed, Scanned, Ordered
<1>6. Removed' /\ Answered'
  BY <1>1, <1>3, <1>4, PodNames DEF Handover, Removed, Answered
<1> QED BY <1>5, <1>6 DEF Handover

\* While the scanner scans, nothing was sent to the remover; an image leaves its
\* list for one of the two others, or because it has no finding.
LEMMA ScanHandover ==
    ASSUME TypeOK, TypeOK', Handover,
           AtStep("scanner", Work("scan")),
           UNCHANGED <<options, pipe, found, tried>>,
           \A c \in Container : c # "scanner" => pc'[c] = pc[c] /\ todo'[c] = todo[c],
           pc'["scanner"] \in {4, 5},
           condemned \subseteq condemned', unscanned \subseteq unscanned',
           \A i \in todo["scanner"] :
               i \in Judged' \/ (pc'["scanner"] = 4 /\ i \in todo'["scanner"])
    PROVE  Handover'
<1>1. pc["scanner"] = 4 /\ options.scan
  BY Working, PodNames
<1>2. ~pipe["scanErase"].whole
  BY <1>1 DEF Handover, Ordered
<1>3. Listed' /\ Answered'
  BY PodNames DEF Handover, Listed, Answered
<1>4. Scanned'
  <2>1. pipe["collectScan"].whole
    BY <1>1 DEF Handover, Scanned
  <2>2. \A i \in found : i \in Judged \/ i \in todo["scanner"]
    BY <1>1 DEF Handover, Scanned
  <2>3. \A i \in Judged : i \in Judged'
    BY DEF Judged
  <2> QED BY <2>1, <2>2, <2>3 DEF Scanned
<1>5. Ordered'
  BY <1>2 DEF Ordered
<1>6. Removed'
  BY <1>2, PodNames DEF Handover, Removed
<1> QED BY <1>3, <1>4, <1>5, <1>6 DEF Handover

\* The work of a container keeps the order of the hand-overs.
LEMMA ProcessHandover ==
    ASSUME TypeOK, TypeOK', Handover, Process
    PROVE  Handover'
<1>1. CASE Collect
  BY <1>1, CollectHandover
<1>2. CASE ScanEnds
  <2>1. pc["scanner"] = 4
    BY <1>2, Working, PodNames DEF ScanEnds
  <2>2. /\ pc'["scanner"] \in {4, 5}
        /\ \A c \in Container : c # "scanner" => pc'[c] = pc[c] /\ todo'[c] = todo[c]
    BY <1>2, <2>1, PodNames DEF ScanEnds, Advance, TypeOK
  <2>3. \A i \in todo["scanner"] : i \in Judged'
    BY <1>2 DEF ScanEnds, Judged
  <2> QED BY <1>2, <2>2, <2>3, ScanHandover DEF ScanEnds
<1>3. CASE RemoveEnds
  <2>1. pc["remover"] = 3
    BY <1>3, Working, PodNames DEF RemoveEnds
  <2>2. /\ UNCHANGED <<options, pipe, todo, condemned, unscanned, found, tried>>
        /\ todo["remover"] = {}
        /\ \A c \in Container : pc'[c] = IF c = "remover" THEN 4 ELSE pc[c]
    BY <1>3, <2>1, PodNames DEF RemoveEnds, Advance, TypeOK
  <2>3. Listed' /\ Scanned' /\ Ordered'
    BY <2>2, PodNames DEF Handover, Listed, Scanned, Ordered, ToGo, Judged
  <2>4. Removed' /\ Answered'
    BY <2>1, <2>2, PodNames DEF Handover, Removed, Answered
  <2> QED BY <2>3, <2>4 DEF Handover
<1>4. ASSUME NEW i \in Image, ScanCompletes(i)
      PROVE  Handover'
  <2>1. pc'["scanner"] = 4
    BY <1>4, Working, PodNames DEF ScanCompletes, Scanning
  <2>2. /\ \A c \in Container : c # "scanner" => todo'[c] = todo[c]
        /\ todo'["scanner"] = todo["scanner"] \ {i}
    BY <1>4, PodNames DEF ScanCompletes, TypeOK
  <2>3. condemned \subseteq condemned' /\ i \in Judged'
    BY <1>4 DEF ScanCompletes, Judged
  <2> QED BY <1>4, <2>1, <2>2, <2>3, ScanHandover DEF ScanCompletes, Scanning
<1>5. ASSUME NEW i \in Image, ScanFails(i)
      PROVE  Handover'
  <2>1. pc'["scanner"] = 4
    BY <1>5, Working, PodNames DEF ScanFails, Scanning
  <2>2. /\ \A c \in Container : c # "scanner" => todo'[c] = todo[c]
        /\ todo'["scanner"] = todo["scanner"] \ {i}
    BY <1>5, PodNames DEF ScanFails, TypeOK
  <2>3. unscanned \subseteq unscanned' /\ i \in Judged'
    BY <1>5 DEF ScanFails, Judged
  <2> QED BY <1>5, <2>1, <2>2, <2>3, ScanHandover DEF ScanFails, Scanning
<1>6. ASSUME NEW i \in Image, Remove(i)
      PROVE  Handover'
  <2>1. pc["remover"] = 3
    BY <1>6, Working, PodNames DEF Remove
  <2>2. /\ UNCHANGED <<options, pc, pipe, condemned, unscanned, found>>
        /\ tried' = tried \cup {i}
        /\ todo'["remover"] = todo["remover"] \ {i}
        /\ todo'["scanner"] = todo["scanner"]
    BY <1>6, PodNames DEF Remove, TypeOK
  <2>3. Listed' /\ Scanned' /\ Ordered' /\ Answered'
    BY <2>2 DEF Handover, Listed, Scanned, Ordered, Answered, ToGo, Judged
  <2>4. Removed'
    BY <2>1, <2>2 DEF Handover, Removed
  <2> QED BY <2>3, <2>4 DEF Handover
<1> QED BY <1>1, <1>2, <1>3, <1>4, <1>5, <1>6 DEF Process

\* Every step keeps the order of the hand-overs.
LEMMA NextHandover == TypeOK /\ TypeOK' /\ Handover /\ [Next]_vars => Handover'
<1> SUFFICES ASSUME TypeOK, TypeOK', Handover, [Next]_vars
             PROVE  Handover'
  OBVIOUS
<1>1. CASE UNCHANGED vars
  BY <1>1 DEF vars, Handover, Listed, Scanned, Ordered, Removed, Answered, ToGo, Judged
<1>2. CASE Fault
  BY <1>2, DieHandover, SendFailsHandover DEF Fault
<1> QED BY <1>1, <1>2, CommunicateHandover, ProcessHandover DEF Next, Proceed

\* A pod whose containers all succeed has a remover that is through.
LEMMA HandoverSuffices == TypeOK /\ Handover => SuccessMeansRemoved
<1> SUFFICES ASSUME TypeOK, Handover, Exited("collector"),
                    NEW i \in found
             PROVE  \/ i \in tried
                    \/ options.scan /\ i \notin Vulnerable
                    \/ options.scan /\ ~options.deleteFailed /\ i \in unscanned
  BY DEF SuccessMeansRemoved
<1>1. \A c \in Container : pc[c] \in 1 .. 10
  BY DEF TypeOK
<1>2. pc["collector"] >= 8
  <2>1. Len(CollectorSteps) = 7
    BY DEF CollectorSteps
  <2>2. Steps("collector") = CollectorSteps
    BY DEF Steps
  <2>3. pc["collector"] > Len(Steps("collector"))
    BY DEF Exited
  <2>4. pc["collector"] > 7
    BY <2>1, <2>2, <2>3, Zenon
  <2> QED BY <1>1, <2>4, PodNames
<1>3. pc["remover"] >= 6
  BY <1>2 DEF Handover, Answered
<1>4. pipe["scanErase"].whole /\ pipe["scanErase"].images \subseteq tried
  BY <1>1, <1>3, PodNames DEF Handover, Removed
<1>5. ToGo \subseteq tried
  BY <1>4 DEF Handover, Ordered
<1>6. CASE ~options.scan
  BY <1>5, <1>6 DEF ToGo
<1>7. CASE options.scan
  <2>1. pc["scanner"] >= 8
    BY <1>4, <1>7 DEF Handover, Ordered
  <2>2. i \in Judged
    BY <1>1, <1>7, <2>1, PodNames DEF Handover, Scanned
  <2> QED BY <1>5, <1>7, <2>2 DEF Judged, ToGo
<1> QED BY <1>6, <1>7

\* When the collector exits without an error, the remover has gone through every
\* vulnerable image the collector found, except those the scanner could not scan
\* and was told to keep: for any images, any number of deaths and failures.
THEOREM SuccessIsRemoval == Spec => []SuccessMeansRemoved
BY InitType, InitHandover, NextType, NextHandover, HandoverSuffices, PTL DEF Spec

(***************************************************************************)
(* The containers never wait for each other all at once.  As long as       *)
(* nothing has failed, the state of a pipe tells how far its two ends and  *)
(* its maker are; and then no set of places is left where all wait.        *)
(***************************************************************************)
Made(p, maker, at) == pipe[p].state = "absent" <=> pc[maker] <= at

\* Writer w opens pipe p in its step m, reader r in its step n.
Meeting(p, w, m, r, n) ==
    /\ pipe[p].state \in {"absent", "made"} => pc[w] <= m /\ pc[r] <= n
    /\ pipe[p].state = "open" => pc[w] = m + 1 /\ pc[r] = n + 1
    /\ pipe[p].state = "closed" => pc[w] > m + 1 /\ pc[r] > n

Smooth == failed = {} /\ faults = 0

Lists ==
    IF options.scan
    THEN /\ Made("collectScan", "collector", 2) /\ Meeting("collectScan", "collector", 3, "scanner", 2)
         /\ Made("scanErase", "scanner", 5) /\ Meeting("scanErase", "scanner", 6, "remover", 1)
    ELSE Made("scanErase", "collector", 2) /\ Meeting("scanErase", "collector", 3, "remover", 1)

Answers ==
    /\ Made("eraseCompleteCollect", "collector", 5)
    /\ Meeting("eraseCompleteCollect", "remover", 4, "collector", 6)
    /\ IF options.scan
       THEN /\ Made("eraseCompleteScan", "scanner", 1)
            /\ Meeting("eraseCompleteScan", "remover", 6, "scanner", 8)
       ELSE pipe["eraseCompleteScan"].state = "absent" /\ pc["remover"] # 7

Meetings == Smooth => Lists /\ Answers

\* The pod starts with no pipe.
LEMMA InitMeetings == Init => Meetings
BY PodNames DEF Init, Meetings, Lists, Answers, Made, Meeting, Absent

\* A pipe is made by the container that is at that step.
LEMMA MakeMeetings ==
    ASSUME TypeOK, Lists, Answers, NEW p \in Pipe, NEW c \in Container, MakePipe(c, p)
    PROVE  Lists' /\ Answers'
<1>1. /\ pipe'[p].state = "made" /\ \A q \in Pipe \ {p} : pipe'[q] = pipe[q]
      /\ pc'[c] = pc[c] + 1 /\ \A d \in Container \ {c} : pc'[d] = pc[d]
      /\ UNCHANGED options
  BY DEF MakePipe, Advance, TypeOK
<1>2. \/ c = "collector" /\ pc[c] = 2 /\ p = CollectorOut
      \/ c = "collector" /\ pc[c] = 5 /\ p = "eraseCompleteCollect"
      \/ c = "scanner" /\ options.scan /\ pc[c] = 1 /\ p = "eraseCompleteScan"
      \/ c = "scanner" /\ options.scan /\ pc[c] = 5 /\ p = "scanErase"
  BY Makes DEF MakePipe
<1>3. \A d \in Container : pc[d] \in 1 .. 10
  BY DEF TypeOK
<1>4. Lists'
  BY <1>1, <1>2, <1>3, PodNames DEF Lists, Made, Meeting, CollectorOut
<1>5. Answers'
  BY <1>1, <1>2, <1>3, PodNames DEF Answers, Made, Meeting, CollectorOut
<1> QED BY <1>4, <1>5

\* Both ends of a pipe open it together.
LEMMA OpenMeetings ==
    ASSUME TypeOK, Lists, Answers, NEW p \in Pipe, NEW w \in Container, NEW r \in Container,
           OpenPipe(w, r, p)
    PROVE  Lists' /\ Answers'
<1>1. /\ pipe'[p].state = "open" /\ \A q \in Pipe \ {p} : pipe'[q] = pipe[q]
      /\ pc'[w] = pc[w] + 1 /\ pc'[r] = pc[r] + 1 /\ w # r
      /\ \A d \in Container \ {w, r} : pc'[d] = pc[d]
      /\ UNCHANGED options /\ pipe[p].state = "made"
  BY DEF OpenPipe, TypeOK
<1>2. ASSUME NEW c \in {w, r}
      PROVE  \/ c = "collector" /\ pc[c] = 3 /\ p = CollectorOut
             \/ c = "collector" /\ pc[c] = 6 /\ p = "eraseCompleteCollect"
             \/ c = "scanner" /\ options.scan /\ pc[c] = 2 /\ p = "collectScan"
             \/ c = "scanner" /\ options.scan /\ pc[c] = 6 /\ p = "scanErase"
             \/ c = "scanner" /\ options.scan /\ pc[c] = 8 /\ p = "eraseCompleteScan"
             \/ c = "remover" /\ pc[c] = 1 /\ p = "scanErase"
             \/ c = "remover" /\ pc[c] = 4 /\ p = "eraseCompleteCollect"
             \/ c = "remover" /\ pc[c] = 6 /\ p = "eraseCompleteScan"
  BY Opens DEF OpenPipe
<1>3. \A d \in Container : pc[d] \in 1 .. 10
  BY DEF TypeOK
<1>4. \/ /\ p = "collectScan" /\ options.scan /\ {w, r} = {"collector", "scanner"}
         /\ pc["collector"] = 3 /\ pc["scanner"] = 2
      \/ /\ p = "scanErase" /\ options.scan /\ {w, r} = {"scanner", "remover"}
         /\ pc["scanner"] = 6 /\ pc["remover"] = 1
      \/ /\ p = "scanErase" /\ ~options.scan /\ {w, r} = {"collector", "remover"}
         /\ pc["collector"] = 3 /\ pc["remover"] = 1
      \/ /\ p = "eraseCompleteCollect" /\ {w, r} = {"collector", "remover"}
         /\ pc["collector"] = 6 /\ pc["remover"] = 4
      \/ /\ p = "eraseCompleteScan" /\ options.scan /\ {w, r} = {"scanner", "remover"}
         /\ pc["scanner"] = 8 /\ pc["remover"] = 6
  BY <1>1, <1>2 DEF CollectorOut
<1>5. Lists'
  BY <1>1, <1>3, <1>4, PodNames DEF Lists, Made, Meeting
<1>6. Answers'
  BY <1>1, <1>3, <1>4, PodNames DEF Answers, Made, Meeting
<1> QED BY <1>5, <1>6

\* The remover finds no pipe of the scanner only where there is no scanner.
LEMMA MissingMeetings ==
    ASSUME TypeOK, Lists, Answers, NEW p \in Pipe, NEW c \in Container, PipeIsMissing(c, p),
           failed' = {}
    PROVE  Lists' /\ Answers'
<1>1. p = "eraseCompleteScan" /\ c = "remover" /\ pc["remover"] = 6
  BY Opens DEF PipeIsMissing, Fail, CollectorOut
<1>2. pipe[p].state = "absent" /\ UNCHANGED <<options, pipe>>
      /\ pc' = [pc EXCEPT !["remover"] = 8]
  BY <1>1, RemoverHasSeven DEF PipeIsMissing
<1>3. \A d \in Container : pc[d] \in 1 .. 10
  BY DEF TypeOK
<1>4. ~options.scan
  BY <1>1, <1>2, <1>3, PodNames DEF Lists, Answers, Made, Meeting, TypeOK
<1>5. pc'["remover"] = 8 /\ \A d \in Container \ {"remover"} : pc'[d] = pc[d]
  <2>1. DOMAIN pc = Container /\ "remover" \in Container
    BY PodNames DEF TypeOK
  <2> QED BY <1>2, <2>1
<1>6. Lists'
  BY <1>1, <1>2, <1>3, <1>4, <1>5, PodNames DEF Lists, Made, Meeting
<1>7. Answers'
  BY <1>1, <1>2, <1>3, <1>4, <1>5, PodNames DEF Answers, Made, Meeting
<1> QED BY <1>6, <1>7

\* The writer closes the pipe that both have opened.
LEMMA WriteMeetings ==
    ASSUME TypeOK, Lists, Answers, NEW p \in Pipe, NEW c \in Container, WritePipe(c, p)
    PROVE  Lists' /\ Answers'
<1>1. /\ pipe'[p].state = "closed" /\ \A q \in Pipe \ {p} : pipe'[q] = pipe[q]
      /\ pc'[c] = pc[c] + 1 /\ \A d \in Container \ {c} : pc'[d] = pc[d]
      /\ UNCHANGED options
  BY DEF WritePipe, Advance, TypeOK
<1>2. \/ c = "collector" /\ pc[c] = 4 /\ p = CollectorOut
      \/ c = "scanner" /\ options.scan /\ pc[c] = 7 /\ p = "scanErase"
      \/ c = "remover" /\ pc[c] = 5 /\ p = "eraseCompleteCollect"
      \/ c = "remover" /\ pc[c] = 7 /\ p = "eraseCompleteScan"
  BY Sending DEF WritePipe
<1>3. \A d \in Container : pc[d] \in 1 .. 10
  BY DEF TypeOK
<1>4. \A q \in Pipe : pipe[q].state \in {"absent", "made", "open", "closed"}
  BY DEF TypeOK
<1>5. Lists'
  BY <1>1, <1>2, <1>3, <1>4, PodNames DEF Lists, Made, Meeting, CollectorOut
<1>6. Answers'
  <2>1. CASE c = "collector" \/ c = "scanner"
    BY <1>1, <1>2, <1>3, <1>4, <2>1, PodNames DEF Lists, Answers, Made, Meeting, CollectorOut
  <2>2. CASE c = "remover" /\ pc[c] = 5 /\ p = "eraseCompleteCollect"
    BY <1>1, <1>3, <1>4, <2>2, PodNames DEF Answers, Made, Meeting
  <2>3. CASE c = "remover" /\ pc[c] = 7 /\ p = "eraseCompleteScan"
    BY <1>1, <1>3, <1>4, <2>3, PodNames DEF Answers, Made, Meeting
  <2> QED BY <1>2, <2>1, <2>2, <2>3
<1> QED BY <1>5, <1>6

\* A container that has read, or has done its work, goes on.
LEMMA GoOnMeetings ==
    ASSUME TypeOK, Lists, Answers, UNCHANGED <<options, pipe>>, NEW c \in Container,
           pc' = pc \/ Advance(c),
           \/ \E p \in Pipe : AtStep(c, Do("read", p)) /\ pipe[p].state = "closed"
           \/ \E verb \in {"list", "scan", "remove"} : AtStep(c, Work(verb))
    PROVE  Lists' /\ Answers'
<1>1. CASE pc' = pc
  BY <1>1 DEF Lists, Answers, Made, Meeting
<1>2. CASE Advance(c)
  <2>1. pc'[c] = pc[c] + 1 /\ \A d \in Container \ {c} : pc'[d] = pc[d]
    BY <1>2 DEF Advance, TypeOK
  <2>2. \/ c = "collector" /\ pc[c] = 7 /\ pipe["eraseCompleteCollect"].state = "closed"
        \/ c = "scanner" /\ options.scan /\ pc[c] = 3 /\ pipe["collectScan"].state = "closed"
        \/ c = "scanner" /\ options.scan /\ pc[c] = 9 /\ pipe["eraseCompleteScan"].state = "closed"
        \/ c = "remover" /\ pc[c] = 2 /\ pipe["scanErase"].state = "closed"
        \/ c = "collector" /\ pc[c] = 1
        \/ c = "scanner" /\ options.scan /\ pc[c] = 4
        \/ c = "remover" /\ pc[c] = 3
    BY Receiving, Working
  <2>3. \A d \in Container : pc[d] \in 1 .. 10
    BY DEF TypeOK
  <2>4. Lists'
    BY <2>1, <2>2, <2>3, PodNames DEF Lists, Made, Meeting
  <2>5. Answers'
    BY <2>1, <2>2, <2>3, PodNames DEF Answers, Made, Meeting
  <2> QED BY <2>4, <2>5
<1> QED BY <1>1, <1>2

\* Each step keeps the meetings, until something fails.
LEMMA NextMeetings == TypeOK /\ TypeOK' /\ Meetings /\ [Next]_vars => Meetings'
<1> SUFFICES ASSUME TypeOK, TypeOK', Meetings, [Next]_vars, Smooth'
             PROVE  Lists' /\ Answers'
  BY DEF Meetings
<1>1. CASE UNCHANGED vars
  BY <1>1 DEF vars, Meetings, Smooth, Lists, Answers, Made, Meeting
<1>2. CASE Fault
  <2>1. faults \in Nat /\ faults' = faults + 1
    BY <1>2 DEF Fault, SendFails, Die, TypeOK
  <2> QED BY <2>1 DEF Smooth
<1>3. ASSUME Proceed
      PROVE  Smooth /\ Lists /\ Answers
  BY <1>3 DEF Proceed, Process, Communicate, Collect, ScanCompletes, ScanFails, ScanEnds, Remove,
              RemoveEnds, OpenPipe, MakePipe, PipeIsMissing, WritePipe, WriteBreaks, ReadPipe,
              Fail, Smooth, Meetings
<1>4. CASE Process
  <2>1. Lists /\ Answers
    BY <1>3, <1>4 DEF Proceed
  <2>2. ASSUME Collect
        PROVE  Lists' /\ Answers'
    BY <2>1, <2>2, GoOnMeetings, PodNames DEF Collect
  <2>3. ASSUME ScanEnds
        PROVE  Lists' /\ Answers'
    BY <2>1, <2>3, GoOnMeetings, PodNames DEF ScanEnds
  <2>4. ASSUME RemoveEnds
        PROVE  Lists' /\ Answers'
    BY <2>1, <2>4, GoOnMeetings, PodNames DEF RemoveEnds
  <2>5. ASSUME NEW i \in Image, ScanCompletes(i) \/ ScanFails(i) \/ Remove(i)
        PROVE  Lists' /\ Answers'
    BY <2>1, <2>5 DEF ScanCompletes, ScanFails, Remove, Lists, Answers, Made, Meeting
  <2> QED BY <1>4, <2>2, <2>3, <2>4, <2>5 DEF Process
<1>5. ASSUME NEW p \in Pipe, Communicate(p)
      PROVE  Lists' /\ Answers'
  <2>1. Smooth /\ Lists /\ Answers
    BY <1>3, <1>5 DEF Proceed
  <2>2. ASSUME NEW c \in Container, ReadPipe(c, p)
        PROVE  Lists' /\ Answers'
    BY <2>1, <2>2, GoOnMeetings DEF ReadPipe
  <2>3. ASSUME NEW c \in Container, WriteBreaks(c, p)
        PROVE  FALSE
    BY <2>1, <2>3 DEF WriteBreaks, Smooth
  <2> QED BY <1>5, <2>1, <2>2, <2>3, OpenMeetings, MakeMeetings, MissingMeetings, WriteMeetings
          DEF Communicate, Smooth
<1> QED BY <1>1, <1>2, <1>4, <1>5 DEF Next, Proceed

\* A container that has not failed is at the step that its place says.
LEMMA AtItsStep ==
    ASSUME failed = {}, NEW c, NEW step, NEW n, NEW m, n <= m, NEW steps, Steps(c) = steps,
           Len(steps) = m, pc[c] = n, steps[n] = step
    PROVE  AtStep(c, step)
<1>1. c \notin failed
  OBVIOUS
<1>2. pc[c] <= Len(Steps(c)) /\ Steps(c)[pc[c]] = step
  BY Zenon
<1> QED BY <1>1, <1>2, Zenon DEF AtStep, Running

\* A container that is at a step to open a pipe is ready to do so.
LEMMA ReadyToOpen ==
    ASSUME TypeOK, failed = {}
    PROVE  /\ pc["collector"] = 3 => AtStep("collector", Do("open", CollectorOut))
           /\ pc["collector"] = 6 => AtStep("collector", Do("open", "eraseCompleteCollect"))
           /\ options.scan /\ pc["scanner"] = 2 => AtStep("scanner", Do("open", "collectScan"))
           /\ options.scan /\ pc["scanner"] = 6 => AtStep("scanner", Do("open", "scanErase"))
           /\ options.scan /\ pc["scanner"] = 8 => AtStep("scanner", Do("open", "eraseCompleteScan"))
           /\ pc["remover"] = 1 => AtStep("remover", Do("open", "scanErase"))
           /\ pc["remover"] = 4 => AtStep("remover", Do("open", "eraseCompleteCollect"))
           /\ pc["remover"] = 6 => AtStep("remover", Do("open", "eraseCompleteScan"))
<1>1. /\ Steps("collector") = CollectorSteps /\ Steps("remover") = RemoverSteps
      /\ options.scan => Steps("scanner") = ScannerSteps
  BY DEF Steps
<1>2. /\ Len(CollectorSteps) = 7
      /\ CollectorSteps[3] = Do("open", CollectorOut)
      /\ CollectorSteps[6] = Do("open", "eraseCompleteCollect")
  BY DEF CollectorSteps
<1>3. /\ Len(ScannerSteps) = 9
      /\ ScannerSteps[2] = Do("open", "collectScan")
      /\ ScannerSteps[6] = Do("open", "scanErase")
      /\ ScannerSteps[8] = Do("open", "eraseCompleteScan")
  BY DEF ScannerSteps
<1>4. /\ Len(RemoverSteps) = 7
      /\ RemoverSteps[1] = Do("open", "scanErase")
      /\ RemoverSteps[4] = Do("open", "eraseCompleteCollect")
      /\ RemoverSteps[6] = Do("open", "eraseCompleteScan")
  BY DEF RemoverSteps
<1>5. /\ pc["collector"] = 3 => AtStep("collector", Do("open", CollectorOut))
      /\ pc["collector"] = 6 => AtStep("collector", Do("open", "eraseCompleteCollect"))
  <2>1. Steps("collector") = CollectorSteps
    BY <1>1
  <2>2. 3 <= 7 /\ 6 <= 7
    OBVIOUS
  <2> QED BY <1>2, <2>1, <2>2, AtItsStep, Zenon
<1>6. ASSUME options.scan
      PROVE  /\ pc["scanner"] = 2 => AtStep("scanner", Do("open", "collectScan"))
             /\ pc["scanner"] = 6 => AtStep("scanner", Do("open", "scanErase"))
             /\ pc["scanner"] = 8 => AtStep("scanner", Do("open", "eraseCompleteScan"))
  <2>1. Steps("scanner") = ScannerSteps
    BY <1>1, <1>6
  <2>2. 2 <= 9 /\ 6 <= 9 /\ 8 <= 9
    OBVIOUS
  <2> QED BY <1>3, <2>1, <2>2, AtItsStep, Zenon
<1>7. /\ pc["remover"] = 1 => AtStep("remover", Do("open", "scanErase"))
      /\ pc["remover"] = 4 => AtStep("remover", Do("open", "eraseCompleteCollect"))
      /\ pc["remover"] = 6 => AtStep("remover", Do("open", "eraseCompleteScan"))
  <2>1. Steps("remover") = RemoverSteps
    BY <1>1
  <2>2. 1 <= 7 /\ 4 <= 7 /\ 6 <= 7
    OBVIOUS
  <2> QED BY <1>4, <2>1, <2>2, AtItsStep, Zenon
<1> QED BY <1>5, <1>6, <1>7

\* Where a container that runs is, and how many steps it has.
LEMMA RunningPlaces ==
    ASSUME TypeOK, failed = {}
    PROVE  /\ Running("collector") <=> pc["collector"] \in 1 .. 7
           /\ Running("scanner") <=> options.scan /\ pc["scanner"] \in 1 .. 9
           /\ Running("remover") <=> pc["remover"] \in 1 .. 7
<1>1. \A c \in Container : pc[c] \in 1 .. 10
  BY DEF TypeOK
<1>2. Len(CollectorSteps) = 7 /\ Len(ScannerSteps) = 9 /\ Len(RemoverSteps) = 7 /\ Len(<<>>) = 0
  BY DEF CollectorSteps, ScannerSteps, RemoverSteps
<1>3. /\ Steps("collector") = CollectorSteps /\ Steps("remover") = RemoverSteps
      /\ Steps("scanner") = IF options.scan THEN ScannerSteps ELSE <<>>
  BY DEF Steps
<1>4. Running("collector") <=> pc["collector"] \in 1 .. 7
  <2>1. Len(Steps("collector")) = 7 /\ pc["collector"] \in 1 .. 10
    BY <1>1, <1>2, <1>3, PodNames
  <2>2. Running("collector") <=> pc["collector"] <= 7
    BY <2>1, Zenon DEF Running
  <2> QED BY <2>1, <2>2
<1>5. Running("scanner") <=> options.scan /\ pc["scanner"] \in 1 .. 9
  <2>1. Len(Steps("scanner")) = (IF options.scan THEN 9 ELSE 0) /\ pc["scanner"] \in 1 .. 10
    BY <1>1, <1>2, <1>3, PodNames
  <2>2. Running("scanner") <=> pc["scanner"] <= (IF options.scan THEN 9 ELSE 0)
    BY <2>1, Zenon DEF Running
  <2> QED BY <2>1, <2>2
<1>6. Running("remover") <=> pc["remover"] \in 1 .. 7
  <2>1. Len(Steps("remover")) = 7 /\ pc["remover"] \in 1 .. 10
    BY <1>1, <1>2, <1>3, PodNames
  <2>2. Running("remover") <=> pc["remover"] <= 7
    BY <2>1, Zenon DEF Running
  <2> QED BY <2>1, <2>2
<1> QED BY <1>4, <1>5, <1>6

\* A container that waits, waits to read, or has opened a pipe alone.
LEMMA Waits ==
    ASSUME NEW c \in Container, Blocked(c)
    PROVE  \/ \E p \in Pipe : AtStep(c, Do("read", p)) /\ pipe[p].state # "closed"
           \/ \E p \in Pipe :
                 /\ AtStep(c, Do("open", p))
                 /\ pipe[p].state = "made" =>
                        \A d \in Container : d # c => ~AtStep(d, Do("open", p))
                 /\ pipe[p].state = "absent" => ~(c = "remover" /\ Writes(c, p))
BY DEF Blocked

\* Where the collector waits, and for what.
LEMMA CollectorBlocked ==
    ASSUME TypeOK, failed = {}, Blocked("collector")
    PROVE  \/ /\ pc["collector"] = 3
              /\ pipe[CollectorOut].state = "made" =>
                     IF options.scan THEN pc["scanner"] # 2 ELSE pc["remover"] # 1
           \/ /\ pc["collector"] = 6
              /\ pipe["eraseCompleteCollect"].state = "made" => pc["remover"] # 4
           \/ pc["collector"] = 7 /\ pipe["eraseCompleteCollect"].state # "closed"
<1>1. ASSUME NEW p \in Pipe, AtStep("collector", Do("read", p)), pipe[p].state # "closed"
      PROVE  pc["collector"] = 7 /\ pipe["eraseCompleteCollect"].state # "closed"
  BY <1>1, Receiving, PodNames
<1>2. ASSUME NEW p \in Pipe, AtStep("collector", Do("open", p)),
             pipe[p].state = "made" =>
                 \A d \in Container : d # "collector" => ~AtStep(d, Do("open", p))
      PROVE  \/ /\ pc["collector"] = 3
                /\ pipe[CollectorOut].state = "made" =>
                       IF options.scan THEN pc["scanner"] # 2 ELSE pc["remover"] # 1
             \/ /\ pc["collector"] = 6
                /\ pipe["eraseCompleteCollect"].state = "made" => pc["remover"] # 4
  <2>1. \/ pc["collector"] = 3 /\ p = CollectorOut
        \/ pc["collector"] = 6 /\ p = "eraseCompleteCollect"
    BY <1>2, Opens, PodNames
  <2>2. pipe[p].state = "made" =>
            ~AtStep("scanner", Do("open", p)) /\ ~AtStep("remover", Do("open", p))
    BY <1>2, PodNames
  <2>3. CASE pc["collector"] = 3 /\ p = CollectorOut
    BY <2>2, <2>3, ReadyToOpen DEF CollectorOut
  <2>4. CASE pc["collector"] = 6 /\ p = "eraseCompleteCollect"
    BY <2>2, <2>4, ReadyToOpen
  <2> QED BY <2>1, <2>3, <2>4
<1> QED BY <1>1, <1>2, Waits, PodNames

\* Where the scanner waits, and for what.
LEMMA ScannerBlocked ==
    ASSUME TypeOK, failed = {}, Blocked("scanner")
    PROVE  /\ options.scan
           /\ \/ /\ pc["scanner"] = 2
                 /\ pipe["collectScan"].state = "made" => pc["collector"] # 3
              \/ pc["scanner"] = 3 /\ pipe["collectScan"].state # "closed"
              \/ pc["scanner"] = 6 /\ (pipe["scanErase"].state = "made" => pc["remover"] # 1)
              \/ /\ pc["scanner"] = 8
                 /\ pipe["eraseCompleteScan"].state = "made" => pc["remover"] # 6
              \/ pc["scanner"] = 9 /\ pipe["eraseCompleteScan"].state # "closed"
<1>1. ASSUME NEW p \in Pipe, AtStep("scanner", Do("read", p)), pipe[p].state # "closed"
      PROVE  /\ options.scan
             /\ \/ pc["scanner"] = 3 /\ pipe["collectScan"].state # "closed"
                \/ pc["scanner"] = 9 /\ pipe["eraseCompleteScan"].state # "closed"
  BY <1>1, Receiving, PodNames
<1>2. ASSUME NEW p \in Pipe, AtStep("scanner", Do("open", p)),
             pipe[p].state = "made" =>
                 \A d \in Container : d # "scanner" => ~AtStep(d, Do("open", p))
      PROVE  /\ options.scan
             /\ \/ /\ pc["scanner"] = 2
                   /\ pipe["collectScan"].state = "made" => pc["collector"] # 3
                \/ pc["scanner"] = 6 /\ (pipe["scanErase"].state = "made" => pc["remover"] # 1)
                \/ /\ pc["scanner"] = 8
                   /\ pipe["eraseCompleteScan"].state = "made" => pc["remover"] # 6
  <2>1. /\ options.scan
        /\ \/ pc["scanner"] = 2 /\ p = "collectScan"
           \/ pc["scanner"] = 6 /\ p = "scanErase"
           \/ pc["scanner"] = 8 /\ p = "eraseCompleteScan"
    BY <1>2, Opens, PodNames
  <2>2. pipe[p].state = "made" =>
            ~AtStep("collector", Do("open", p)) /\ ~AtStep("remover", Do("open", p))
    BY <1>2, PodNames
  <2>3. CASE pc["scanner"] = 2 /\ p = "collectScan"
    BY <2>1, <2>2, <2>3, ReadyToOpen DEF CollectorOut
  <2>4. CASE pc["scanner"] = 6 /\ p = "scanErase"
    BY <2>1, <2>2, <2>4, ReadyToOpen
  <2>5. CASE pc["scanner"] = 8 /\ p = "eraseCompleteScan"
    BY <2>1, <2>2, <2>5, ReadyToOpen
  <2> QED BY <2>1, <2>3, <2>4, <2>5
<1> QED BY <1>1, <1>2, Waits, PodNames

\* Where the remover waits, and for what.
LEMMA RemoverBlocked ==
    ASSUME TypeOK, failed = {}, Blocked("remover")
    PROVE  \/ /\ pc["remover"] = 1
              /\ pipe["scanErase"].state = "made" =>
                     IF options.scan THEN pc["scanner"] # 6 ELSE pc["collector"] # 3
           \/ pc["remover"] = 2 /\ pipe["scanErase"].state # "closed"
           \/ /\ pc["remover"] = 4 /\ pipe["eraseCompleteCollect"].state # "absent"
              /\ pipe["eraseCompleteCollect"].state = "made" => pc["collector"] # 6
           \/ /\ pc["remover"] = 6 /\ pipe["eraseCompleteScan"].state # "absent"
              /\ pipe["eraseCompleteScan"].state = "made" =>
                     ~(options.scan /\ pc["scanner"] = 8)
<1>1. ASSUME NEW p \in Pipe, AtStep("remover", Do("read", p)), pipe[p].state # "closed"
      PROVE  pc["remover"] = 2 /\ pipe["scanErase"].state # "closed"
  BY <1>1, Receiving, PodNames
<1>2. Writes("remover", "eraseCompleteCollect") /\ Writes("remover", "eraseCompleteScan")
  <2>1. /\ Steps("remover") = RemoverSteps /\ Len(RemoverSteps) = 7
        /\ RemoverSteps[5] = Do("write", "eraseCompleteCollect")
        /\ RemoverSteps[7] = Do("write", "eraseCompleteScan")
    BY DEF Steps, RemoverSteps
  <2> QED BY <2>1 DEF Writes
<1>3. ASSUME NEW p \in Pipe, AtStep("remover", Do("open", p)),
             pipe[p].state = "made" =>
                 \A d \in Container : d # "remover" => ~AtStep(d, Do("open", p)),
             pipe[p].state = "absent" => ~Writes("remover", p)
      PROVE  \/ /\ pc["remover"] = 1
                /\ pipe["scanErase"].state = "made" =>
                       IF options.scan THEN pc["scanner"] # 6 ELSE pc["collector"] # 3
             \/ /\ pc["remover"] = 4 /\ pipe["eraseCompleteCollect"].state # "absent"
                /\ pipe["eraseCompleteCollect"].state = "made" => pc["collector"] # 6
             \/ /\ pc["remover"] = 6 /\ pipe["eraseCompleteScan"].state # "absent"
                /\ pipe["eraseCompleteScan"].state = "made" =>
                       ~(options.scan /\ pc["scanner"] = 8)
  <2>1. \/ pc["remover"] = 1 /\ p = "scanErase"
        \/ pc["remover"] = 4 /\ p = "eraseCompleteCollect"
        \/ pc["remover"] = 6 /\ p = "eraseCompleteScan"
    BY <1>3, Opens, PodNames
  <2>2. pipe[p].state = "made" =>
            ~AtStep("collector", Do("open", p)) /\ ~AtStep("scanner", Do("open", p))
    BY <1>3, PodNames
  <2>3. CASE pc["remover"] = 1 /\ p = "scanErase"
    BY <2>2, <2>3, ReadyToOpen DEF CollectorOut
  <2>4. CASE pc["remover"] = 4 /\ p = "eraseCompleteCollect"
    BY <1>2, <1>3, <2>2, <2>4, ReadyToOpen
  <2>5. CASE pc["remover"] = 6 /\ p = "eraseCompleteScan"
    BY <1>2, <1>3, <2>2, <2>5, ReadyToOpen
  <2> QED BY <2>1, <2>3, <2>4, <2>5
<1> QED BY <1>1, <1>3, Waits, PodNames

\* With the meetings, a container that runs can go on.
LEMMA MeetingsSuffice == TypeOK /\ Meetings => NoneWaitForEachOther
<1> SUFFICES ASSUME TypeOK, Lists, Answers, failed = {},
                    \A c \in Container : Running(c) => Blocked(c)
             PROVE  \A c \in Container : ~Running(c)
  BY DEF NoneWaitForEachOther, Meetings, Smooth
<1>1. /\ pc["collector"] \in 1 .. 10 /\ pc["scanner"] \in 1 .. 10 /\ pc["remover"] \in 1 .. 10
      /\ \A p \in Pipe : pipe[p].state \in {"absent", "made", "open", "closed"}
  BY PodNames DEF TypeOK
<1>2. pc["collector"] \in 1 .. 7 => Blocked("collector")
  BY RunningPlaces, PodNames
<1>3. options.scan /\ pc["scanner"] \in 1 .. 9 => Blocked("scanner")
  BY RunningPlaces, PodNames
<1>4. pc["remover"] \in 1 .. 7 => Blocked("remover")
  BY RunningPlaces, PodNames
<1>5. CASE options.scan
  <2>1. pc["collector"] \in {3, 6, 7, 8, 9, 10}
    BY <1>1, <1>2, CollectorBlocked
  <2>2. pc["scanner"] \in {2, 3, 6, 8, 9, 10}
    BY <1>1, <1>3, <1>5, ScannerBlocked
  <2>3. pc["remover"] \in {1, 2, 4, 6, 8, 9, 10}
    BY <1>1, <1>4, RemoverBlocked
  <2>4. pc["remover"] # 1 /\ pc["remover"] # 2
    BY <1>1, <1>2, <1>3, <1>4, <1>5, <2>1, <2>2, CollectorBlocked, ScannerBlocked,
       RemoverBlocked, PodNames DEF Lists, Made, Meeting, CollectorOut
  <2>5. pc["remover"] # 4
    BY <1>1, <1>2, <1>3, <1>4, <1>5, <2>1, <2>2, CollectorBlocked, ScannerBlocked,
       RemoverBlocked, PodNames DEF Lists, Answers, Made, Meeting, CollectorOut
  <2>6. pc["remover"] # 6
    BY <1>1, <1>2, <1>3, <1>4, <1>5, <2>1, <2>2, CollectorBlocked, ScannerBlocked,
       RemoverBlocked, PodNames DEF Lists, Answers, Made, Meeting, CollectorOut
  <2>7. pc["scanner"] = 10 /\ pc["collector"] > 7
    BY <1>1, <1>2, <1>3, <1>4, <1>5, <2>1, <2>2, <2>3, <2>4, <2>5, <2>6, CollectorBlocked,
       ScannerBlocked, PodNames DEF Lists, Answers, Made, Meeting, CollectorOut
  <2> QED BY <1>1, <2>3, <2>4, <2>5, <2>6, <2>7, RunningPlaces DEF Container
<1>6. CASE ~options.scan
  <2>1. pc["collector"] \in {3, 6, 7, 8, 9, 10}
    BY <1>1, <1>2, CollectorBlocked
  <2>3. pc["remover"] \in {1, 2, 4, 6, 8, 9, 10}
    BY <1>1, <1>4, RemoverBlocked
  <2>4. pc["remover"] # 1 /\ pc["remover"] # 2
    BY <1>1, <1>2, <1>4, <1>6, <2>1, CollectorBlocked, RemoverBlocked, PodNames
    DEF Lists, Made, Meeting, CollectorOut
  <2>5. pc["remover"] # 4
    BY <1>1, <1>2, <1>4, <1>6, <2>1, CollectorBlocked, RemoverBlocked, PodNames
    DEF Lists, Answers, Made, Meeting, CollectorOut
  <2>6. pc["remover"] # 6
    BY <1>1, <1>4, <1>6, RemoverBlocked, PodNames DEF Answers
  <2>7. pc["collector"] > 7
    BY <1>1, <1>2, <1>6, <2>1, <2>3, <2>4, <2>5, <2>6, CollectorBlocked, PodNames
    DEF Lists, Answers, Made, Meeting, CollectorOut
  <2> QED BY <1>1, <1>6, <2>3, <2>4, <2>5, <2>6, <2>7, RunningPlaces DEF Container
<1> QED BY <1>5, <1>6

\* As long as no container has failed, one of those that run can go on: for any
\* images, any options and any order in which the containers come to the pipes.
THEOREM NoDeadlock == Spec => []NoneWaitForEachOther
BY InitType, InitMeetings, NextType, NextMeetings, MeetingsSuffice, PTL DEF Spec
=============================================================================
