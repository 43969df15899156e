-------------------------- MODULE RunServiceProofs --------------------------
(***************************************************************************)
(* Machine-checked proofs about RunService, for every set of requests and  *)
(* every value of the bounds, and about Scenario, for every set of roles,  *)
(* files and codes.  The two share a module because of its last part: the  *)
(* scenario runner knows a run by the phases it writes and the outcome it  *)
(* returns, and the run service is shown to keep to that.                  *)
(***************************************************************************)
EXTENDS RunService, Scenario, FiniteSetTheorems, SequenceTheorems, WellFoundedInduction, TLAPS

-----------------------------------------------------------------------------
(* Types *)

\* The sets are named so that the provers need not look into them.
Phased == Phases \union {""}
Coded == ExitCodes \union {NoCode}
Warned == {"monitor", "nothing ran", "cache", "cleanup", "retain", "result", "summary", "manifest"}
Logs == Seq(Phases)

\* The type invariant, by the groups of variables that actions leave alone.
StatusType ==
    /\ mgr \in Phased /\ write \in Phased /\ beat \in Phased /\ file \in Phased
    /\ beats \in 0..MaxBeats /\ events \in Logs
ContextType ==
    /\ ctx \in {"live", "deadline", "signal"} /\ cut \in {"live", "deadline", "signal", "unsafe"}
    /\ handler \in {"waiting", "writing", "done"} /\ strikes \in 0..MaxStrikes
    /\ cut = "live" => strikes < MaxStrikes
WorkspaceType ==
    /\ kind \in {"none", "legacy", "image", "vhdx"}
    /\ shell \in {"absent", "present", "removed"}
    /\ child \in {"none", "mounted", "orphan", "released", "retained"}
    /\ lease \in BOOLEAN /\ answer \in {"none", "ok", "refused"} /\ pending \in BOOLEAN
ResultType ==
    /\ raw \in Coded /\ exit \in Coded /\ saved \in Coded /\ summary \in Coded
    /\ manifest \in Coded /\ infra \in BOOLEAN /\ warnings \in SUBSET Warned
MainType ==
    /\ req \in Requests /\ pc \in Stages /\ phase \in {"single", "compile", "test"}
    /\ unity \in BOOLEAN /\ faults \in 0..MaxFaults

\* The parts are TypeOK.
LEMMA TypeParts ==
  TypeOK <=> MainType /\ StatusType /\ ContextType /\ WorkspaceType /\ ResultType
BY DEF TypeOK, MainType, StatusType, ContextType, WorkspaceType, ResultType, Phased, Coded,
       Warned, Logs

\* What the main goroutine says is a phase.
LEMMA PhasedType ==
  /\ "" \in Phased
  /\ \A p \in Phases : p \in Phased
  /\ Phases = {"compiling", "running", "done", "timeout_compile", "timeout_test",
               "timeout_total", "interrupted"}
BY DEF Phased, Phases, Terminal

\* The event log stays a sequence of phases.
LEMMA EventType == ASSUME NEW e \in Logs, NEW p \in Phases PROVE Append(e, p) \in Logs
BY DEF Logs

\* Every code that the code names is an exit code, and none of them is NoCode.
LEMMA CodedType ==
  /\ {0, 1, 2, 3, 4, 6, 7, 8, 9, 10, NoCode} \subseteq Coded
  /\ NoCode \notin {0, 1, 2, 3, 4, 6, 7, 8, 9, 10}
BY RunAssumption DEF Coded, ExitCodes

\* The codes of a warm run.
LEMMA WarmCodes == WarmOutcomes \subseteq {0, 2, 3, 6, 9, 10}
BY DEF WarmOutcomes

\* The codes of a finished test run.
LEMMA TestCodes ==
  {0, 2, 3, 6} \union (IF req.filtered THEN {10} ELSE {}) \subseteq {0, 2, 3, 6, 10}
OBVIOUS

\* What handleContextErr makes of each reason.
LEMMA ContextOutcomes ==
  /\ ContextOutcome("deadline")[1] = 4 /\ ContextOutcome("deadline")[2] = "timeout_total"
  /\ ContextOutcome("signal")[1] = 8 /\ ContextOutcome("signal")[2] = "interrupted"
  /\ ContextOutcome("unsafe")[1] = 4 /\ ContextOutcome("unsafe")[2] = "interrupted"
BY DEF ContextOutcome

\* Which actions change which group of variables.
LEMMA Footprint ==
  ASSUME Next
  PROVE
   /\ UNCHANGED req
   /\ \/ UNCHANGED statusVars
      \/ Publish \/ HeartbeatTick \/ HeartbeatWrite \/ HandlerWrites \/ Begin \/ ProbeBridge
      \/ RunWarm \/ Execute \/ Launch \/ CompileEnds \/ TestsEnd \/ Classify
   /\ \/ UNCHANGED contextVars
      \/ Deadline \/ Signal \/ HandlerWrites \/ MonitorBeat
   /\ \/ UNCHANGED workspaceVars
      \/ ChooseBackend \/ HelloBroker \/ PrepareShell \/ MaterializeImage \/ EnsureParent
      \/ AcquireChild \/ ReleaseWorkspace \/ RetryRelease
   /\ \/ UNCHANGED resultVars
      \/ Begin \/ HelloBroker \/ EnsureImage \/ PrepareShell \/ MaterializeImage
      \/ EnsureParent \/ AcquireChild
      \/ RunWarm \/ Launch \/ CompileEnds \/ TestsEnd \/ Classify \/ StopMonitor
      \/ WriteCacheBack \/ ReleaseWorkspace \/ SaveResult \/ SaveSummary \/ SaveManifest
<1>1. CASE ~Main
  BY <1>1
    DEF Next, Main, StopUnity, At, HeartbeatTick, HeartbeatWrite, Deadline, Signal,
          HandlerWrites, MonitorBeat
<1>2. CASE Main
  BY <1>2
    DEF Main, Publish, Begin, ProbeBridge, RunWarm, ChooseBackend, HelloBroker,
          EnsureImage, PrepareShell, MaterializeImage, EnsureParent, AcquireChild,
          Execute, Launch, CompileEnds, TestsEnd, WaitFails, Classify, StopMonitor,
          WriteCacheBack, ReleaseWorkspace, SaveResult, SaveSummary, SaveManifest,
          RetryRelease, Report, At
<1> QED
  BY <1>1, <1>2

\* One more tick stays within the bound.
LEMMA BeatTyped == ASSUME beats \in 0..MaxBeats, beats < MaxBeats PROVE beats + 1 \in 0..MaxBeats
BY RunAssumption

\* The status writer keeps its types.
LEMMA StatusTyped ==
  ASSUME TypeOK, Next PROVE StatusType'
<1> USE TypeParts, PhasedType
<1>1. CASE UNCHANGED statusVars
  BY <1>1 DEF statusVars, StatusType
<1>2. CASE Publish
  BY <1>2, EventType DEF StatusType, Phased, Publish
<1>3. CASE HeartbeatTick
  <2>1. beats' \in 0..MaxBeats
    BY <1>3, BeatTyped DEF StatusType, HeartbeatTick
  <2>2. QED
    BY <1>3, <2>1 DEF StatusType, HeartbeatTick
<1>6. CASE HeartbeatWrite
  BY <1>6 DEF StatusType, HeartbeatWrite
<1>7. CASE HandlerWrites
  BY <1>7 DEF StatusType, HandlerWrites
<1>4. CASE Begin \/ ProbeBridge \/ Execute \/ Launch \/ CompileEnds \/ TestsEnd
  BY <1>4 DEF StatusType, Begin, ProbeBridge, Execute, Launch, CompileEnds, TestsEnd, WaitFails,
     Say, EndExecution, statusVars
<1>5. CASE RunWarm \/ Classify
  BY <1>5, ContextOutcomes DEF StatusType, ContextType, RunWarm, Classify, Say, EndExecution,
     statusVars
<1> QED
  BY Footprint, <1>1, <1>2, <1>3, <1>4, <1>5, <1>6, <1>7

\* The contexts keep their types.
LEMMA ContextTyped ==
  ASSUME TypeOK, Next PROVE ContextType'
<1> USE TypeParts DEF ContextType
<1>1. CASE UNCHANGED contextVars
  BY <1>1 DEF contextVars
<1>2. CASE Deadline \/ Signal \/ HandlerWrites
  BY <1>2 DEF Deadline, Signal, HandlerWrites, EndContext
<1>3. CASE MonitorBeat
  BY <1>3 DEF MonitorBeat, Monitored, MaxStrikes
<1> QED
  BY Footprint, <1>1, <1>2, <1>3

\* The workspace keeps its types.
LEMMA WorkspaceTyped ==
  ASSUME TypeOK, Next PROVE WorkspaceType'
<1> USE TypeParts DEF WorkspaceType
<1>1. CASE UNCHANGED workspaceVars
  BY <1>1 DEF workspaceVars
<1>2. CASE ChooseBackend \/ HelloBroker \/ PrepareShell \/ MaterializeImage \/ EnsureParent
  BY <1>2 DEF ChooseBackend, HelloBroker, PrepareShell, MaterializeImage, EnsureParent
<1>3. CASE AcquireChild
  BY <1>3 DEF AcquireChild
<1>4. CASE ReleaseWorkspace \/ RetryRelease
  BY <1>4 DEF ReleaseWorkspace, RetryRelease, ReleaseChild, RemoveShell, Released
<1> QED
  BY Footprint, <1>1, <1>2, <1>3, <1>4

\* The result keeps its types.
LEMMA ResultTyped ==
  ASSUME TypeOK, Next PROVE ResultType'
<1> USE TypeParts, CodedType DEF ResultType
<1>1. CASE UNCHANGED resultVars
  BY <1>1 DEF resultVars
<1>2. CASE Begin \/ HelloBroker \/ EnsureParent \/ AcquireChild
  BY <1>2 DEF Begin, HelloBroker, EnsureParent, AcquireChild, Fail, resultVars
<1>3. CASE EnsureImage \/ PrepareShell \/ MaterializeImage
  BY <1>3 DEF EnsureImage, PrepareShell, MaterializeImage, Fail, resultVars
<1>4. CASE RunWarm \/ Classify
  BY <1>4, WarmCodes, ContextOutcomes DEF RunWarm, Classify, EndExecution, ContextType, resultVars
<1>5. CASE Launch \/ CompileEnds \/ TestsEnd
  BY <1>5, TestCodes DEF Launch, CompileEnds, TestsEnd, WaitFails, EndExecution, resultVars
<1>6. CASE StopMonitor \/ WriteCacheBack \/ ReleaseWorkspace
  BY <1>6 DEF StopMonitor, WriteCacheBack, ReleaseWorkspace, ReleaseChild, RemoveShell,
     Warn, Warned, resultVars
<1>7. CASE SaveResult
  BY <1>7 DEF SaveResult, Warned
<1>8. CASE SaveSummary
  BY <1>8 DEF SaveSummary, FinalCode, Warned
<1>9. CASE SaveManifest
  BY <1>9 DEF SaveManifest, Warned
<1> QED
  BY Footprint, <1>1, <1>2, <1>3, <1>4, <1>5, <1>6, <1>7, <1>8, <1>9
\* One more fault stays within the bound.
LEMMA FaultTyped == ASSUME faults \in 0..MaxFaults, NoFault \/ Fault PROVE faults' \in 0..MaxFaults
BY RunAssumption DEF NoFault, Fault

\* The main goroutine keeps its types.
LEMMA MainTyped ==
  ASSUME TypeOK, Next PROVE MainType'
<1> USE TypeParts DEF MainType
<1>1. req' \in Requests
  BY Footprint
<1>2. phase' \in {"single", "compile", "test"}
  BY 
    DEF Next, Main, Publish, HeartbeatTick, HeartbeatWrite, Deadline, Signal,
          HandlerWrites, MonitorBeat, Begin, ProbeBridge, ChooseBackend, HelloBroker,
          EnsureImage, PrepareShell, MaterializeImage, EnsureParent, AcquireChild,
          RunWarm, Execute, Launch, CompileEnds, TestsEnd, WaitFails, StopUnity, Classify,
          StopMonitor, WriteCacheBack, ReleaseWorkspace, SaveResult, SaveSummary,
          SaveManifest, RetryRelease, Report
<1>3. unity' \in BOOLEAN
  BY 
    DEF Next, Main, Publish, HeartbeatTick, HeartbeatWrite, Deadline, Signal,
          HandlerWrites, MonitorBeat, Begin, ProbeBridge, ChooseBackend, HelloBroker,
          EnsureImage, PrepareShell, MaterializeImage, EnsureParent, AcquireChild,
          RunWarm, Execute, Launch, CompileEnds, TestsEnd, WaitFails, StopUnity, Classify,
          StopMonitor, WriteCacheBack, ReleaseWorkspace, SaveResult, SaveSummary,
          SaveManifest, RetryRelease, Report, EndExecution
<1>4. faults' \in 0..MaxFaults
  <2>1. NoFault \/ Fault
  BY 
    DEF Next, Main, Publish, HeartbeatTick, HeartbeatWrite, Deadline, Signal,
          HandlerWrites, MonitorBeat, Begin, ProbeBridge, ChooseBackend, HelloBroker,
          EnsureImage, PrepareShell, MaterializeImage, EnsureParent, AcquireChild,
          RunWarm, Execute, Launch, CompileEnds, TestsEnd, WaitFails, StopUnity, Classify,
          StopMonitor, WriteCacheBack, ReleaseWorkspace, SaveResult, SaveSummary,
          SaveManifest, RetryRelease, Report, FaultOrCut, NoFault, ReleaseChild,
          RemoveShell
  <2> QED BY <2>1, FaultTyped
<1>5. pc' \in Stages
  BY 
    DEF Next, Main, Publish, HeartbeatTick, HeartbeatWrite, Deadline, Signal,
          HandlerWrites, MonitorBeat, Begin, ProbeBridge, ChooseBackend, HelloBroker,
          EnsureImage, PrepareShell, MaterializeImage, EnsureParent, AcquireChild,
          RunWarm, Execute, Launch, CompileEnds, TestsEnd, WaitFails, StopUnity, Classify,
          StopMonitor, WriteCacheBack, ReleaseWorkspace, SaveResult, SaveSummary,
          SaveManifest, RetryRelease, Report, At, Go, Fail, EndExecution, Stages,
          ReleaseChild, RemoveShell
<1> QED
  BY <1>1, <1>2, <1>3, <1>4, <1>5
-----------------------------------------------------------------------------
(* The inductive invariant *)

\* The stages before a workspace is chosen, before it is complete, and while it
\* must be there; those after the files, and those after an execution.
Choosing == {"start", "bridge", "warm", "cold", "hello", "image"}
Preparation == Choosing \union {"shell", "library", "parent", "acquire"}
Using == {"exec", "launch", "unity", "classify", "ended", "cache", "release"}
Over == {"deferred", "report", "exited"}
Results == {"ended", "cache", "release", "save", "summary", "manifest"} \union Over

\* Run fails before any execution has given a code.
ErrorsEarly ==
    infra => pc \in {"report", "exited"} /\ raw = NoCode
\* A code is there only after the execution.
CodeLate ==
    raw # NoCode => pc \in Results
\* The result file follows the execution, and then holds its code or nothing.
UnsavedBefore ==
    pc \notin {"summary", "manifest"} \union Over => saved = NoCode
SavedAtSummary ==
    pc = "summary" => saved \in {raw, NoCode}
\* From the summary on the exit code is 9 or that of every file written so far.
CodesAtManifest ==
    pc = "manifest" => exit = 9 \/ (exit = raw /\ saved = raw /\ summary = raw)
CodesAtEnd ==
    pc \in Over /\ ~infra =>
        exit = 9 \/ (exit = raw /\ saved = raw /\ summary = raw /\ manifest = raw)

CodesInv ==
    /\ ErrorsEarly
    /\ CodeLate
    /\ UnsavedBefore
    /\ SavedAtSummary
    /\ CodesAtManifest
    /\ CodesAtEnd

\* A run without a workspace has no part of one.
NoWorkspace ==
    kind = "none" => shell = "absent" /\ child = "none" /\ ~lease /\ ~pending
\* Only a vhdx workspace has a child.
NoChild ==
    kind # "vhdx" => child = "none" /\ ~lease
\* The kind of the workspace is chosen once, on the way to the shell.
KindChosen ==
    kind # "none" => pc \notin Choosing
    \/ (pc = "image" /\ kind = "image" /\ shell = "absent")
\* What the stages of the preparation are about.
KindKnown ==
    /\ pc \in {"shell", "release", "deferred"} => kind # "none"
    /\ pc \in {"parent", "acquire"} => kind = "vhdx"
    /\ pc \in {"image", "library"} => kind = "image"
    /\ pc \in {"library", "parent", "acquire"} => shell = "present"
\* The broker's answer tells whether a child under a lease is still mounted.
AnswerTold ==
    lease => (answer = "ok" <=> child # "mounted")
\* The lease is held together with the shell, and both wait to be cleaned up.
LeaseHeld ==
    lease => child \in {"mounted", "released", "retained"} /\ shell = "present" /\ pending
\* Nothing is mounted that the run holds no lease of.
MountIsLeased ==
    ~lease => child # "mounted"
\* The answer to the release is that about this child.
Unasked ==
    child = "none" => answer = "none"
Asked ==
    child \in {"released", "retained"} => answer = "ok"
\* Unity runs only while the main goroutine waits for it.
UnityRuns ==
    unity => pc = "unity"
\* From the execution to the release the workspace is there.
Prepared ==
    pc \in Using /\ kind # "none" => shell = "present" /\ pending
\* Before it, nothing waits to be cleaned up.
Unprepared ==
    pc \in Preparation => ~lease /\ ~pending /\ shell # "removed" /\ child = "none"
\* After the release the workspace is gone, or kept, or a warning names it.
LeftoverTold ==
    pc \in Results \ Using /\ ~infra /\ kind # "none" =>
        \/ ~pending /\ (shell = "present" => req.keep)
        \/ IF req.keep THEN "retain" \in warnings ELSE "cleanup" \in warnings
\* What is to be kept is not removed, and the deferred release is not about it.
ChildKept ==
    req.keep => child # "released"
ShellKept ==
    req.keep /\ raw # NoCode /\ kind # "none" => shell = "present"
DeferredRemoves ==
    pc = "deferred" => ~req.keep

WorkspaceInv ==
    /\ NoWorkspace
    /\ NoChild
    /\ KindChosen
    /\ KindKnown
    /\ AnswerTold
    /\ LeaseHeld
    /\ MountIsLeased
    /\ Unasked
    /\ Asked
    /\ UnityRuns
    /\ Prepared
    /\ Unprepared
    /\ LeftoverTold
    /\ ChildKept
    /\ ShellKept
    /\ DeferredRemoves

\* The context of Unity ends with that of the run, or by the monitor of a child.
CutFollows ==
    cut # "unsafe" => cut = ctx
CutUnsafe ==
    cut = "unsafe" => kind = "vhdx"

\* A phase that ends the log agrees with the result and with what ended Unity.
Agrees(p) ==
    /\ raw # NoCode
    /\ raw = 8 => p = "interrupted"
    /\ (raw = 4) <=> (p \in Terminal \ {"done", "interrupted"}
                     \/ (p = "interrupted" /\ cut = "unsafe"))
    /\ p = "interrupted" => cut # "live"

\* The terminal phase that is on its way to the log agrees, and is the first.
WriteAgrees ==
    write \in Terminal => Agrees(write)
WriteIsLast ==
    write \in Terminal => \A i \in 1..Len(events) : events[i] \notin Terminal
\* A phase on its way is terminal exactly when there is a result.
WriteTellsEnd ==
    write # "" => (write \in Terminal <=> raw # NoCode)
\* A terminal event is the last one, agrees, and nothing is on its way after it.
EventsAgree ==
    \A i \in 1..Len(events) : events[i] \in Terminal =>
        i = Len(events) /\ Agrees(events[i]) /\ write = ""

ContextInv == CutFollows /\ CutUnsafe

EventsInv ==
    /\ WriteAgrees
    /\ WriteIsLast
    /\ WriteTellsEnd
    /\ EventsAgree

\* The inductive invariant.
RunInv == TypeOK /\ CodesInv /\ WorkspaceInv /\ ContextInv /\ EventsInv

\* The actions by what they are part of.
Background ==
    Publish \/ HeartbeatTick \/ HeartbeatWrite \/ Deadline \/ Signal \/ HandlerWrites
    \/ MonitorBeat
Preparing ==
    Begin \/ ProbeBridge \/ ChooseBackend \/ HelloBroker \/ EnsureImage \/ PrepareShell
    \/ MaterializeImage \/ EnsureParent \/ AcquireChild
Running ==
    RunWarm \/ Execute \/ Launch \/ CompileEnds \/ TestsEnd \/ StopUnity \/ Classify
    \/ StopMonitor
Releasing ==
    WriteCacheBack \/ ReleaseWorkspace \/ RetryRelease
Saving ==
    SaveResult \/ SaveSummary \/ SaveManifest \/ Report

\* Every step is one of these.
LEMMA Actions ==
  ASSUME Next PROVE Background \/ Preparing \/ Running \/ Releasing \/ Saving
BY DEF Next, Main, Background, Preparing, Running, Releasing, Saving

\* The preparation of the shell goes on according to the kind, or fails.
LEMMA PrepareShellSteps ==
  ASSUME TypeOK, WorkspaceInv, PrepareShell
  PROVE  /\ pc = "shell" /\ UNCHANGED <<kind, child, lease, answer>>
         /\ \/ kind = "legacy" /\ pc' = "exec" /\ shell' = "present" /\ pending'
            \/ kind = "vhdx" /\ pc' = "parent" /\ shell' = "present" /\ ~pending'
            \/ kind = "image" /\ pc' = "library" /\ shell' = "present" /\ ~pending'
            \/ pc' = "report" /\ ~pending'
<1>1. kind \in {"legacy", "image", "vhdx"} /\ ~pending
  BY TypeParts
    DEF WorkspaceType, WorkspaceInv, KindKnown, Unprepared, PrepareShell, At, Preparation
<1>2. pc = "shell" /\ UNCHANGED <<kind, child, lease, answer>>
  BY DEF PrepareShell, At
<1>3. /\ kind = "legacy" => pc' \in {"exec", "report"}
      /\ kind = "image" => pc' \in {"library", "report"}
      /\ kind = "vhdx" => pc' \in {"parent", "report"}
  BY DEF PrepareShell, Go, Fail
<1>4. pc' # "report" => shell' = "present"
  BY DEF PrepareShell, Go, Fail
<1>5. pc' = "report" => ~pending'
  BY <1>1 DEF PrepareShell, Go, Fail
<1>6. kind # "legacy" => ~pending'
  BY <1>1 DEF PrepareShell
<1>7. kind = "legacy" /\ pc' # "report" => pending'
  BY DEF PrepareShell, Go, Fail
<1> QED
  BY <1>1, <1>2, <1>3, <1>4, <1>5, <1>6, <1>7

\* The exit codes, through the goroutines beside the main one.
LEMMA CodesBackground ==
  ASSUME TypeOK, CodesInv, Background PROVE CodesInv'
<1> USE CodedType
  DEF Background, Publish, HeartbeatTick, HeartbeatWrite, Deadline, Signal,
        HandlerWrites, MonitorBeat, EndContext, Monitored, resultVars
<1>1. ErrorsEarly'
  BY DEF CodesInv, ErrorsEarly
<1>2. CodeLate'
  BY DEF CodesInv, CodeLate
<1>3. UnsavedBefore'
  BY DEF CodesInv, UnsavedBefore
<1>4. SavedAtSummary'
  BY DEF CodesInv, SavedAtSummary
<1>5. CodesAtManifest'
  BY DEF CodesInv, CodesAtManifest
<1>6. CodesAtEnd'
  BY DEF CodesInv, CodesAtEnd
<1> QED
  BY <1>1, <1>2, <1>3, <1>4, <1>5, <1>6 DEF CodesInv

\* The exit codes, through the preparation.
LEMMA CodesPreparing ==
  ASSUME TypeOK, CodesInv, Preparing PROVE CodesInv'
<1> USE CodedType
  DEF Preparing, Begin, ProbeBridge, ChooseBackend, HelloBroker, EnsureImage,
        PrepareShell, MaterializeImage, EnsureParent, AcquireChild, At, Go, Fail,
        Say, resultVars
<1>1. ErrorsEarly'
  BY DEF CodesInv, ErrorsEarly, CodeLate, Over, Results
<1>2. CodeLate'
  BY DEF CodesInv, CodeLate, Over, Results
<1>3. UnsavedBefore'
  BY DEF CodesInv, UnsavedBefore, Over
<1>4. SavedAtSummary'
  BY DEF SavedAtSummary
<1>5. CodesAtManifest'
  BY DEF CodesAtManifest
<1>6. CodesAtEnd'
  BY DEF CodesAtEnd, Over
<1> QED
  BY <1>1, <1>2, <1>3, <1>4, <1>5, <1>6 DEF CodesInv

\* The exit codes, through the execution.
LEMMA CodesRunning ==
  ASSUME TypeOK, CodesInv, Running PROVE CodesInv'
<1> USE CodedType, WarmCodes, TestCodes
  DEF Running, RunWarm, Execute, Launch, CompileEnds, TestsEnd, WaitFails, StopUnity,
        Classify, StopMonitor, At, Go, Say, EndExecution, resultVars
<1>1. ErrorsEarly'
  BY DEF CodesInv, ErrorsEarly
<1>2. CodeLate'
  BY DEF CodesInv, CodeLate, Over, Results
<1>3. UnsavedBefore'
  BY DEF CodesInv, UnsavedBefore, Over
<1>4. SavedAtSummary'
  BY DEF SavedAtSummary
<1>5. CodesAtManifest'
  BY DEF CodesAtManifest
<1>6. CodesAtEnd'
  BY DEF CodesAtEnd, Over
<1> QED
  BY <1>1, <1>2, <1>3, <1>4, <1>5, <1>6 DEF CodesInv

\* The exit codes, through the clean-up.
LEMMA CodesReleasing ==
  ASSUME TypeOK, CodesInv, Releasing PROVE CodesInv'
<1> USE CodedType
  DEF Releasing, WriteCacheBack, ReleaseWorkspace, RetryRelease, At, Go,
        WritesCacheBack, Warn, ReleaseChild, RemoveShell, Released, resultVars
<1>1. ErrorsEarly'
  BY DEF CodesInv, ErrorsEarly
<1>2. CodeLate'
  BY DEF CodeLate, Over, Results
<1>3. UnsavedBefore'
  BY DEF CodesInv, UnsavedBefore, Over
<1>4. SavedAtSummary'
  BY DEF SavedAtSummary
<1>5. CodesAtManifest'
  BY DEF CodesAtManifest
<1>6. CodesAtEnd'
  BY DEF CodesInv, CodesAtEnd, Over
<1> QED
  BY <1>1, <1>2, <1>3, <1>4, <1>5, <1>6 DEF CodesInv

\* The exit codes, through the files of the run.
LEMMA CodesSaving ==
  ASSUME TypeOK, CodesInv, Saving PROVE CodesInv'
<1> USE CodedType
  DEF Saving, SaveResult, SaveSummary, SaveManifest, Report, At, Go, FinalCode,
        RetriesRelease, resultVars
<1>1. ErrorsEarly'
  BY DEF CodesInv, ErrorsEarly
<1>2. CodeLate'
  BY DEF CodeLate, Over, Results
<1>3. UnsavedBefore'
  BY DEF UnsavedBefore, Over
<1>4. SavedAtSummary'
  BY DEF CodesInv, UnsavedBefore, SavedAtSummary, Over
<1>5. CodesAtManifest'
  BY DEF CodesInv, SavedAtSummary, CodesAtManifest
<1>6. CodesAtEnd'
  BY DEF CodesInv, CodesAtManifest, CodesAtEnd, Over
<1> QED
  BY <1>1, <1>2, <1>3, <1>4, <1>5, <1>6 DEF CodesInv

\* The workspace, through the goroutines beside the main one.
LEMMA WorkspaceBackground ==
  ASSUME TypeOK, CodesInv, WorkspaceInv, Background PROVE WorkspaceInv'
<1> USE CodedType
  DEF Background, Publish, HeartbeatTick, HeartbeatWrite, Deadline, Signal,
        HandlerWrites, MonitorBeat, EndContext, Monitored, workspaceVars,
        resultVars
<1>1. NoWorkspace'
  BY DEF WorkspaceInv, NoWorkspace
<1>2. NoChild'
  BY DEF WorkspaceInv, NoChild
<1>3. KindChosen'
  BY DEF WorkspaceInv, KindChosen
<1>4. KindKnown'
  BY DEF WorkspaceInv, KindKnown
<1>5. AnswerTold'
  BY DEF WorkspaceInv, AnswerTold
<1>6. LeaseHeld'
  BY DEF WorkspaceInv, LeaseHeld
<1>7. MountIsLeased'
  BY DEF WorkspaceInv, MountIsLeased
<1>8. Unasked'
  BY DEF WorkspaceInv, Unasked
<1>9. Asked'
  BY DEF WorkspaceInv, Asked
<1>10. UnityRuns'
  BY DEF WorkspaceInv, UnityRuns
<1>11. Prepared'
  BY DEF WorkspaceInv, Prepared
<1>12. Unprepared'
  BY DEF WorkspaceInv, Unprepared
<1>13. LeftoverTold'
  BY DEF WorkspaceInv, LeftoverTold
<1>14. ChildKept'
  BY DEF WorkspaceInv, ChildKept
<1>15. ShellKept'
  BY DEF WorkspaceInv, ShellKept
<1>16. DeferredRemoves'
  BY DEF WorkspaceInv, DeferredRemoves
<1> QED
  BY <1>1, <1>2, <1>3, <1>4, <1>5, <1>6, <1>7, <1>8, <1>9, <1>10, <1>11, <1>12, <1>13,
     <1>14, <1>15, <1>16 DEF WorkspaceInv

\* The workspace, through the preparation.
LEMMA WorkspacePreparing ==
  ASSUME TypeOK, CodesInv, WorkspaceInv, Preparing PROVE WorkspaceInv'
<1> USE CodedType
  DEF Preparing, Begin, ProbeBridge, ChooseBackend, HelloBroker, EnsureImage,
        PrepareShell, MaterializeImage, EnsureParent, AcquireChild, At, Go, Fail,
        Say, workspaceVars, resultVars
<1>1. NoWorkspace'
  BY DEF WorkspaceInv, NoWorkspace, KindKnown
<1>2. NoChild'
  BY DEF WorkspaceInv, NoChild, KindKnown, Unprepared, Choosing, Preparation
<1>3. KindChosen'
  BY DEF WorkspaceInv, NoWorkspace, KindChosen, Choosing
<1>4. KindKnown'
  <2>1. CASE PrepareShell
    BY <2>1, PrepareShellSteps, TypeParts
      DEF KindKnown, KindKnown
  <2>2. CASE ~PrepareShell
    BY <2>2
      DEF CodesInv, WorkspaceInv, ErrorsEarly, CodeLate, UnsavedBefore, SavedAtSummary,
            CodesAtManifest, CodesAtEnd, NoWorkspace, NoChild, KindChosen, KindKnown,
            AnswerTold, LeaseHeld, MountIsLeased, Unasked, Asked, UnityRuns, Prepared,
            Unprepared, LeftoverTold, ChildKept, ShellKept, DeferredRemoves, Choosing,
            Preparation, Using, Over, Results
  <2> QED
    BY <2>1, <2>2
<1>5. AnswerTold'
  BY DEF WorkspaceInv, AnswerTold, Unasked, Unprepared, Preparation
<1>6. LeaseHeld'
  <2>1. CASE PrepareShell
    BY <2>1, PrepareShellSteps, TypeParts
      DEF WorkspaceInv, LeaseHeld, Unprepared, LeaseHeld, Preparation
  <2>2. CASE ~PrepareShell
    BY <2>2
      DEF CodesInv, WorkspaceInv, ErrorsEarly, CodeLate, UnsavedBefore, SavedAtSummary,
            CodesAtManifest, CodesAtEnd, NoWorkspace, NoChild, KindChosen, KindKnown,
            AnswerTold, LeaseHeld, MountIsLeased, Unasked, Asked, UnityRuns, Prepared,
            Unprepared, LeftoverTold, ChildKept, ShellKept, DeferredRemoves, Choosing,
            Preparation, Using, Over, Results
  <2> QED
    BY <2>1, <2>2
<1>7. MountIsLeased'
  BY DEF WorkspaceInv, MountIsLeased
<1>8. Unasked'
  BY DEF WorkspaceInv, Unasked, Unprepared, Preparation
<1>9. Asked'
  BY DEF WorkspaceInv, Asked
<1>10. UnityRuns'
  BY DEF WorkspaceInv, UnityRuns
<1>11. Prepared'
  <2>1. CASE PrepareShell
    BY <2>1, PrepareShellSteps, TypeParts
      DEF Prepared, Using
  <2>2. CASE ~PrepareShell
    BY <2>2
      DEF CodesInv, WorkspaceInv, ErrorsEarly, CodeLate, UnsavedBefore, SavedAtSummary,
            CodesAtManifest, CodesAtEnd, NoWorkspace, NoChild, KindChosen, KindKnown,
            AnswerTold, LeaseHeld, MountIsLeased, Unasked, Asked, UnityRuns, Prepared,
            Unprepared, LeftoverTold, ChildKept, ShellKept, DeferredRemoves, Choosing,
            Preparation, Using, Over, Results
  <2> QED
    BY <2>1, <2>2
<1>12. Unprepared'
  BY DEF WorkspaceInv, Unprepared, Choosing, Preparation
<1>13. LeftoverTold'
  BY DEF LeftoverTold, Over, Results
<1>14. ChildKept'
  BY DEF WorkspaceInv, ChildKept
<1>15. ShellKept'
  BY DEF CodesInv, CodeLate, ShellKept, Over, Results
<1>16. DeferredRemoves'
  BY DEF DeferredRemoves
<1> QED
  BY <1>1, <1>2, <1>3, <1>4, <1>5, <1>6, <1>7, <1>8, <1>9, <1>10, <1>11, <1>12, <1>13,
     <1>14, <1>15, <1>16 DEF WorkspaceInv

\* The workspace, through the execution.
LEMMA WorkspaceRunning ==
  ASSUME TypeOK, CodesInv, WorkspaceInv, Running PROVE WorkspaceInv'
<1> USE CodedType, WarmCodes, TestCodes
  DEF Running, RunWarm, Execute, Launch, CompileEnds, TestsEnd, WaitFails, StopUnity,
        Classify, StopMonitor, At, Go, Say, EndExecution, workspaceVars,
        resultVars
<1>1. NoWorkspace'
  BY DEF WorkspaceInv, NoWorkspace
<1>2. NoChild'
  BY DEF WorkspaceInv, NoChild
<1>3. KindChosen'
  BY DEF WorkspaceInv, KindChosen, Choosing
<1>4. KindKnown'
  BY DEF KindKnown
<1>5. AnswerTold'
  BY DEF WorkspaceInv, AnswerTold
<1>6. LeaseHeld'
  BY DEF WorkspaceInv, LeaseHeld
<1>7. MountIsLeased'
  BY DEF WorkspaceInv, MountIsLeased
<1>8. Unasked'
  BY DEF WorkspaceInv, Unasked
<1>9. Asked'
  BY DEF WorkspaceInv, Asked
<1>10. UnityRuns'
  BY DEF WorkspaceInv, UnityRuns
<1>11. Prepared'
  BY DEF WorkspaceInv, KindChosen, Prepared, Choosing, Using
<1>12. Unprepared'
  BY DEF WorkspaceInv, Unprepared, Choosing, Preparation
<1>13. LeftoverTold'
  BY DEF LeftoverTold, Using, Over, Results
<1>14. ChildKept'
  BY DEF WorkspaceInv, ChildKept
<1>15. ShellKept'
  BY DEF WorkspaceInv, KindChosen, Prepared, ShellKept, Choosing, Using
<1>16. DeferredRemoves'
  BY DEF DeferredRemoves
<1> QED
  BY <1>1, <1>2, <1>3, <1>4, <1>5, <1>6, <1>7, <1>8, <1>9, <1>10, <1>11, <1>12, <1>13,
     <1>14, <1>15, <1>16 DEF WorkspaceInv

\* The workspace, through the clean-up.
LEMMA WorkspaceReleasing ==
  ASSUME TypeOK, CodesInv, WorkspaceInv, Releasing PROVE WorkspaceInv'
<1> USE CodedType
  DEF Releasing, WriteCacheBack, ReleaseWorkspace, RetryRelease, At, Go,
        WritesCacheBack, Warn, ReleaseChild, RemoveShell, Released, workspaceVars,
        resultVars
<1>1. NoWorkspace'
  BY DEF WorkspaceInv, NoWorkspace, KindKnown
<1>2. NoChild'
  BY DEF WorkspaceInv, NoChild
<1>3. KindChosen'
  BY DEF KindChosen, Choosing
<1>4. KindKnown'
  BY DEF WorkspaceInv, KindKnown
<1>5. AnswerTold'
  BY DEF WorkspaceInv, AnswerTold
<1>6. LeaseHeld'
  BY DEF WorkspaceInv, LeaseHeld
<1>7. MountIsLeased'
  BY DEF WorkspaceInv, AnswerTold, MountIsLeased
<1>8. Unasked'
  BY DEF WorkspaceInv, LeaseHeld, Unasked
<1>9. Asked'
  BY DEF WorkspaceInv, Asked
<1>10. UnityRuns'
  BY DEF WorkspaceInv, UnityRuns
<1>11. Prepared'
  BY DEF WorkspaceInv, Prepared, Using
<1>12. Unprepared'
  BY DEF Unprepared, Choosing, Preparation
<1>13. LeftoverTold'
  BY DEF WorkspaceInv, LeftoverTold, Using, Over, Results
<1>14. ChildKept'
  BY DEF WorkspaceInv, ChildKept, DeferredRemoves
<1>15. ShellKept'
  BY DEF WorkspaceInv, ShellKept, DeferredRemoves
<1>16. DeferredRemoves'
  BY DEF WorkspaceInv, DeferredRemoves
<1> QED
  BY <1>1, <1>2, <1>3, <1>4, <1>5, <1>6, <1>7, <1>8, <1>9, <1>10, <1>11, <1>12, <1>13,
     <1>14, <1>15, <1>16 DEF WorkspaceInv

\* The workspace, through the files of the run.
LEMMA WorkspaceSaving ==
  ASSUME TypeOK, CodesInv, WorkspaceInv, Saving PROVE WorkspaceInv'
<1> USE CodedType
  DEF Saving, SaveResult, SaveSummary, SaveManifest, Report, At, Go, FinalCode,
        RetriesRelease, workspaceVars, resultVars
<1>1. NoWorkspace'
  BY DEF WorkspaceInv, NoWorkspace
<1>2. NoChild'
  BY DEF WorkspaceInv, NoChild
<1>3. KindChosen'
  BY DEF KindChosen, Choosing
<1>4. KindKnown'
  BY DEF WorkspaceInv, NoWorkspace, KindKnown
<1>5. AnswerTold'
  BY DEF WorkspaceInv, AnswerTold
<1>6. LeaseHeld'
  BY DEF WorkspaceInv, LeaseHeld
<1>7. MountIsLeased'
  BY DEF WorkspaceInv, MountIsLeased
<1>8. Unasked'
  BY DEF WorkspaceInv, Unasked
<1>9. Asked'
  BY DEF WorkspaceInv, Asked
<1>10. UnityRuns'
  BY DEF WorkspaceInv, UnityRuns
<1>11. Prepared'
  BY DEF Prepared, Using
<1>12. Unprepared'
  BY DEF Unprepared, Choosing, Preparation
<1>13. LeftoverTold'
  BY DEF WorkspaceInv, LeftoverTold, Using, Over, Results
<1>14. ChildKept'
  BY DEF WorkspaceInv, ChildKept
<1>15. ShellKept'
  BY DEF WorkspaceInv, ShellKept
<1>16. DeferredRemoves'
  BY DEF DeferredRemoves
<1> QED
  BY <1>1, <1>2, <1>3, <1>4, <1>5, <1>6, <1>7, <1>8, <1>9, <1>10, <1>11, <1>12, <1>13,
     <1>14, <1>15, <1>16 DEF WorkspaceInv

\* The contexts, through the goroutines beside the main one.
LEMMA ContextBackground ==
  ASSUME TypeOK, WorkspaceInv, CodesInv, ContextInv, Background PROVE ContextInv'
<1> USE CodedType
  DEF Background, Publish, HeartbeatTick, HeartbeatWrite, Deadline, Signal,
        HandlerWrites, MonitorBeat, EndContext, Monitored, contextVars,
        workspaceVars
<1>1. CutFollows'
  BY TypeParts DEF ContextInv, CutFollows
<1>2. CutUnsafe'
  BY TypeParts DEF WorkspaceInv, ContextInv, NoChild, CutUnsafe
<1> QED
  BY <1>1, <1>2 DEF ContextInv

\* The contexts, through the preparation.
LEMMA ContextPreparing ==
  ASSUME TypeOK, WorkspaceInv, CodesInv, ContextInv, Preparing PROVE ContextInv'
<1> USE CodedType
  DEF Preparing, Begin, ProbeBridge, ChooseBackend, HelloBroker, EnsureImage,
        PrepareShell, MaterializeImage, EnsureParent, AcquireChild, At, Go, Fail,
        Say, contextVars, workspaceVars
<1>1. CutFollows'
  BY TypeParts DEF ContextInv, CutFollows
<1>2. CutUnsafe'
  BY TypeParts DEF WorkspaceInv, ContextInv, KindChosen, CutUnsafe, Choosing
<1> QED
  BY <1>1, <1>2 DEF ContextInv

\* The contexts, through the execution.
LEMMA ContextRunning ==
  ASSUME TypeOK, WorkspaceInv, CodesInv, ContextInv, Running PROVE ContextInv'
<1> USE CodedType, WarmCodes, TestCodes
  DEF Running, RunWarm, Execute, Launch, CompileEnds, TestsEnd, WaitFails, StopUnity,
        Classify, StopMonitor, At, Go, Say, EndExecution, contextVars,
        workspaceVars
<1>1. CutFollows'
  BY TypeParts DEF ContextInv, CutFollows
<1>2. CutUnsafe'
  BY TypeParts DEF ContextInv, CutUnsafe
<1> QED
  BY <1>1, <1>2 DEF ContextInv

\* The contexts, through the clean-up.
LEMMA ContextReleasing ==
  ASSUME TypeOK, WorkspaceInv, CodesInv, ContextInv, Releasing PROVE ContextInv'
<1> USE CodedType
  DEF Releasing, WriteCacheBack, ReleaseWorkspace, RetryRelease, At, Go,
        WritesCacheBack, Warn, ReleaseChild, RemoveShell, Released, contextVars,
        workspaceVars
<1>1. CutFollows'
  BY TypeParts DEF ContextInv, CutFollows
<1>2. CutUnsafe'
  BY TypeParts DEF ContextInv, CutUnsafe
<1> QED
  BY <1>1, <1>2 DEF ContextInv

\* The contexts, through the files of the run.
LEMMA ContextSaving ==
  ASSUME TypeOK, WorkspaceInv, CodesInv, ContextInv, Saving PROVE ContextInv'
<1> USE CodedType
  DEF Saving, SaveResult, SaveSummary, SaveManifest, Report, At, Go, FinalCode,
        RetriesRelease, contextVars, workspaceVars
<1>1. CutFollows'
  BY TypeParts DEF ContextInv, CutFollows
<1>2. CutUnsafe'
  BY TypeParts DEF ContextInv, CutUnsafe
<1> QED
  BY <1>1, <1>2 DEF ContextInv

\* The terminal phases; progress and silence are not among them.
LEMMA TerminalPhases ==
  /\ Terminal = {"done", "timeout_compile", "timeout_test", "timeout_total", "interrupted"}
  /\ "" \notin Terminal /\ "compiling" \notin Terminal /\ "running" \notin Terminal
BY DEF Terminal

\* Once Unity is cut off, the reason does not change.
LEMMA CutStays ==
  ASSUME Next, cut # "live" PROVE cut' = cut
<1>1. CASE UNCHANGED contextVars
  BY <1>1 DEF contextVars
<1>2. CASE Deadline \/ Signal \/ HandlerWrites \/ MonitorBeat
  BY <1>2 DEF Deadline, Signal, HandlerWrites, MonitorBeat, EndContext, Monitored
<1> QED
  BY Footprint, <1>1, <1>2

\* Only the status writer appends an event.
LEMMA EventsStay ==
  ASSUME Next, ~Publish PROVE events' = events
<1>1. CASE UNCHANGED statusVars
  BY <1>1 DEF statusVars
<1>2. CASE HeartbeatTick \/ HeartbeatWrite \/ HandlerWrites
  BY <1>2 DEF HeartbeatTick, HeartbeatWrite, HandlerWrites
<1>3. CASE Begin \/ ProbeBridge \/ RunWarm \/ Execute \/ Launch \/ CompileEnds
           \/ TestsEnd \/ Classify
  BY <1>3
    DEF Begin, ProbeBridge, RunWarm, Execute, Launch, CompileEnds, TestsEnd, WaitFails,
          Classify, Say, EndExecution, statusVars
<1> QED
  BY Footprint, <1>1, <1>2, <1>3

\* Once there is a result, it stays, and nothing new is on its way to the log.
LEMMA OutcomeStays ==
  ASSUME CodesInv, Next, raw # NoCode
  PROVE  raw' = raw /\ (write' = write \/ write' = "")
<1>1. pc \in Results
  BY DEF CodesInv, CodeLate
<1>2. raw' = raw
  <2>1. CASE UNCHANGED resultVars
    BY <2>1 DEF resultVars
  <2>2. CASE StopMonitor \/ WriteCacheBack \/ ReleaseWorkspace \/ SaveResult
             \/ SaveSummary \/ SaveManifest
    BY <2>2
      DEF StopMonitor, WriteCacheBack, ReleaseWorkspace, ReleaseChild, RemoveShell,
            Warn, SaveResult, SaveSummary, SaveManifest, resultVars
  <2>3. CASE Begin \/ HelloBroker \/ EnsureImage \/ PrepareShell \/ MaterializeImage
             \/ EnsureParent \/ AcquireChild
    BY <1>1, <2>3
      DEF Begin, HelloBroker, EnsureImage, PrepareShell, MaterializeImage,
            EnsureParent, AcquireChild, At, Results, Over
  <2>4. CASE RunWarm \/ Launch \/ CompileEnds \/ TestsEnd \/ Classify
    BY <1>1, <2>4 DEF RunWarm, Launch, CompileEnds, TestsEnd, WaitFails, Classify, At, Results, Over
  <2> QED
    BY Footprint, <2>1, <2>2, <2>3, <2>4
<1>3. write' = write \/ write' = ""
  <2>1. CASE UNCHANGED statusVars
    BY <2>1 DEF statusVars
  <2>2. CASE Publish \/ HeartbeatTick \/ HeartbeatWrite \/ HandlerWrites
    BY <2>2 DEF Publish, HeartbeatTick, HeartbeatWrite, HandlerWrites
  <2>3. CASE Begin \/ ProbeBridge \/ RunWarm \/ Execute \/ Launch \/ CompileEnds
             \/ TestsEnd \/ Classify
    BY <1>1, <2>3
      DEF Begin, ProbeBridge, RunWarm, Execute, Launch, CompileEnds, TestsEnd, WaitFails,
            Classify, At, Results, Over
  <2> QED
    BY Footprint, <2>1, <2>2, <2>3
<1> QED
  BY <1>2, <1>3

\* What agrees with the result goes on agreeing with it.
LEMMA AgreementStays ==
  ASSUME CodesInv, Next, NEW p, Agrees(p)
  PROVE  Agrees(p)'
BY CutStays, OutcomeStays DEF Agrees

\* Without a result only progress is said.
LEMMA Progress ==
  ASSUME TypeOK, Next, raw' = NoCode
  PROVE  write' = write \/ write' \in {"", "compiling", "running"}
<1>1. CASE UNCHANGED statusVars
  BY <1>1 DEF statusVars
<1>2. CASE Publish \/ HeartbeatTick \/ HeartbeatWrite \/ HandlerWrites
  BY <1>2 DEF Publish, HeartbeatTick, HeartbeatWrite, HandlerWrites
<1>3. CASE Begin \/ ProbeBridge \/ Execute \/ Launch \/ CompileEnds \/ TestsEnd
  BY <1>3, CodedType, TestCodes
    DEF Begin, ProbeBridge, Execute, Launch, CompileEnds, TestsEnd, WaitFails, Say,
          EndExecution, statusVars
<1>4. CASE RunWarm
  BY <1>4, CodedType, WarmCodes, ContextOutcomes, TypeParts
    DEF RunWarm, Say, EndExecution, statusVars, ContextType
<1>5. CASE Classify
  BY <1>5, CodedType, ContextOutcomes, TypeParts
    DEF Classify, Say, EndExecution, statusVars, ContextType
<1> QED
  BY Footprint, <1>1, <1>2, <1>3, <1>4, <1>5

\* An execution that ended by itself reads as done.
LEMMA NormalAgrees ==
  ASSUME raw' \in {0, 1, 2, 3, 6, 9, 10}, write' = "done"
  PROVE  write' \in Terminal /\ Agrees(write)'
BY CodedType, TerminalPhases DEF Agrees

\* A phase that ran out of its own time reads so.
LEMMA PhaseTimeoutAgrees ==
  ASSUME raw' = 4, write' \in {"timeout_compile", "timeout_test"}
  PROVE  write' \in Terminal /\ Agrees(write)'
BY CodedType, TerminalPhases DEF Agrees

\* An execution that was cut short reads as its context says.
LEMMA ContextAgrees ==
  ASSUME NEW why \in {"deadline", "signal", "unsafe"}, cut' = why,
         raw' = ContextOutcome(why)[1], write' = ContextOutcome(why)[2]
  PROVE  write' \in Terminal /\ Agrees(write)'
BY CodedType, TerminalPhases, ContextOutcomes DEF Agrees

\* The step that gives the result says a phase that agrees with it, or nothing.
LEMMA OutcomeAgrees ==
  ASSUME TypeOK, WorkspaceInv, ContextInv, Next, raw = NoCode, raw' # NoCode
  PROVE  ~Publish /\ (write' = "" \/ (write' \in Terminal /\ Agrees(write)'))
<1>1. ~Publish
  BY DEF Publish, resultVars
<1>2. CASE UNCHANGED resultVars
  BY <1>2 DEF resultVars
<1>3. CASE Begin \/ HelloBroker \/ EnsureImage \/ PrepareShell \/ MaterializeImage
           \/ EnsureParent \/ AcquireChild
  BY <1>3
    DEF Begin, HelloBroker, EnsureImage, PrepareShell, MaterializeImage,
          EnsureParent, AcquireChild, Fail, resultVars
<1>4. CASE StopMonitor \/ WriteCacheBack \/ ReleaseWorkspace \/ SaveResult
           \/ SaveSummary \/ SaveManifest
  BY <1>4
    DEF StopMonitor, WriteCacheBack, ReleaseWorkspace, ReleaseChild, RemoveShell,
          Warn, SaveResult, SaveSummary, SaveManifest, resultVars
<1>5. CASE Launch
  <2>1. raw' = 1 /\ write' = "done"
    BY <1>5 DEF Launch, EndExecution, Say, resultVars
  <2> QED
    BY <1>1, <2>1, NormalAgrees
<1>6. CASE CompileEnds
  <2>1. raw' \in {1, 2, 6} /\ write' = "done"
    BY <1>6 DEF CompileEnds, WaitFails, EndExecution, Say, resultVars
  <2> QED
    BY <1>1, <2>1, NormalAgrees
<1>7. CASE TestsEnd
  <2>1. write' = "" \/ (raw' \in {0, 1, 2, 3, 6, 10} /\ write' = "done")
    BY <1>7, TestCodes DEF TestsEnd, WaitFails, At, EndExecution, Say, statusVars
  <2> QED
    BY <1>1, <2>1, NormalAgrees
<1>8. CASE RunWarm
  <2>1. kind = "none" /\ cut = ctx /\ cut' = cut
    BY <1>8 DEF WorkspaceInv, KindChosen, ContextInv, CutFollows, CutUnsafe, RunWarm, At,
       Choosing, contextVars
  <2>2. CASE \E code \in WarmOutcomes : EndExecution(code, "done")
    <3>1. raw' \in {0, 2, 3, 6, 9, 10} /\ write' = "done"
      BY <2>2, WarmCodes DEF EndExecution, Say
    <3> QED
      BY <1>1, <3>1, NormalAgrees
  <2>3. CASE ctx # "live" /\ EndExecution(ContextOutcome(ctx)[1], ContextOutcome(ctx)[2])
    <3>1. ctx \in {"deadline", "signal", "unsafe"}
      BY <2>3, TypeParts DEF ContextType
    <3>2. raw' = ContextOutcome(ctx)[1] /\ write' = ContextOutcome(ctx)[2]
      BY <2>3 DEF EndExecution, Say
    <3> QED
      BY <1>1, <2>1, <3>1, <3>2, ContextAgrees
  <2> QED
    BY <1>8, <2>2, <2>3 DEF RunWarm, resultVars
<1>9. CASE Classify
  <2>1. cut' = cut
    BY <1>9 DEF Classify, contextVars
  <2>2. CASE cut = "live"
    <3>1. raw' = 4 /\ write' \in {"timeout_compile", "timeout_test"}
      BY <1>9, <2>2 DEF Classify, EndExecution, Say
    <3> QED
      BY <1>1, <3>1, PhaseTimeoutAgrees
  <2>3. CASE cut # "live"
    <3>1. cut \in {"deadline", "signal", "unsafe"}
      BY <2>3, TypeParts DEF ContextType
    <3>2. raw' = ContextOutcome(cut)[1] /\ write' = ContextOutcome(cut)[2]
      BY <1>9, <2>3 DEF Classify, EndExecution, Say
    <3> QED
      BY <1>1, <2>1, <3>1, <3>2, ContextAgrees
  <2> QED
    BY <2>2, <2>3
<1> QED
  BY Footprint, <1>2, <1>3, <1>4, <1>5, <1>6, <1>7, <1>8, <1>9

\* The event log, through every step.
LEMMA EventsStep ==
  ASSUME TypeOK, CodesInv, WorkspaceInv, ContextInv, EventsInv, Next
  PROVE  EventsInv'
<1> USE DEF EventsInv
<1>a. raw = NoCode => \A i \in 1..Len(events) : events[i] \notin Terminal
  BY DEF EventsAgree, Agrees
<1>1. CASE Publish
  <2>1. raw' = raw /\ write' = "" /\ write \in Phases
    BY <1>1, TypeParts, PhasedType DEF Publish, resultVars, StatusType, Phased
  <2>2. WriteAgrees' /\ WriteIsLast' /\ WriteTellsEnd'
    BY <2>1, TerminalPhases DEF WriteAgrees, WriteIsLast, WriteTellsEnd
  <2>3. \A p : Agrees(p) => Agrees(p)'
    BY AgreementStays
  <2>4. \A i \in 1..Len(events) : events[i] \notin Terminal
    BY <1>1 DEF Publish, EventsAgree
  <2>5. CASE events' = events
    <3>1. \A i \in 1..Len(events') : events'[i] \notin Terminal
      BY <2>4, <2>5
    <3> QED
      BY <2>2, <3>1 DEF EventsAgree
  <2>6. CASE events' = Append(events, write)
    <3>1. events \in Seq(Phases)
      BY TypeParts DEF StatusType, Logs
    <3>2. ASSUME NEW i \in 1..Len(events'), events'[i] \in Terminal
          PROVE  i = Len(events') /\ events'[i] = write
      BY <2>4, <2>6, <3>1, <3>2
    <3>3. ASSUME NEW i \in 1..Len(events'), events'[i] \in Terminal
          PROVE  i = Len(events') /\ Agrees(events[i])' /\ write' = ""
      <4>1. PICK p : p = write
        OBVIOUS
      <4>2. i = Len(events') /\ events'[i] = p
        BY <3>2, <3>3, <4>1
      <4>3. Agrees(p)
        BY <3>3, <4>1, <4>2 DEF WriteAgrees
      <4>4. Agrees(p)'
        BY <2>3, <4>3
      <4> QED
        BY <2>1, <4>2, <4>4 DEF Agrees
    <3> QED
      BY <2>2, <3>3 DEF EventsAgree
  <2> QED
    BY <1>1, <2>2, <2>5, <2>6 DEF Publish
<1>2. CASE ~Publish /\ raw # NoCode
  <2>1. events' = events /\ raw' = raw /\ (write' = write \/ write' = "")
    BY <1>2, EventsStay, OutcomeStays
  <2>2. \A p : Agrees(p) => Agrees(p)'
    BY AgreementStays
  <2> QED
    BY <2>1, <2>2, TerminalPhases DEF WriteAgrees, WriteIsLast, WriteTellsEnd, EventsAgree
<1>3. CASE raw = NoCode /\ raw' # NoCode
  <2>1. events' = events /\ (write' = "" \/ (write' \in Terminal /\ Agrees(write)'))
    BY <1>3, OutcomeAgrees, EventsStay
  <2> QED
    BY <1>3, <1>a, <2>1, TerminalPhases DEF WriteAgrees, WriteIsLast, WriteTellsEnd,
       EventsAgree
<1>4. CASE ~Publish /\ raw = NoCode /\ raw' = NoCode
  <2>1. events' = events /\ (write' = write \/ write' \in {"", "compiling", "running"})
    BY <1>4, Progress, EventsStay
  <2> QED
    BY <1>4, <1>a, <2>1, TerminalPhases DEF WriteAgrees, WriteIsLast, WriteTellsEnd,
       EventsAgree
<1> QED
  BY <1>1, <1>2, <1>3, <1>4

-----------------------------------------------------------------------------
(* The theorems *)

\* The invariant holds at the start of a run.
LEMMA InitInv == Init => RunInv
<1> SUFFICES ASSUME Init PROVE RunInv
  OBVIOUS
<1>1. TypeOK
  <2>a. 0 \in 0..MaxFaults /\ 0 \in 0..MaxBeats /\ 0 \in 0..3
    BY RunAssumption
  <2>b. <<>> \in Logs
    BY DEF Logs
  <2>1. MainType
    <3>1. unity \in BOOLEAN
      BY DEF Init
    <3> QED
      BY <2>a, <3>1 DEF Init, MainType, Stages
  <2>2. StatusType
    BY <2>a, <2>b, PhasedType DEF Init, StatusType
  <2>3. ContextType
    <3>1. strikes = 0
      BY DEF Init
    <3>2. strikes \in 0..MaxStrikes /\ strikes < MaxStrikes
      BY <3>1 DEF MaxStrikes
    <3> QED
      BY <3>2 DEF Init, ContextType
  <2>4. WorkspaceType
    BY DEF Init, WorkspaceType
  <2>5. ResultType
    BY CodedType DEF Init, ResultType
  <2> QED
    BY <2>1, <2>2, <2>3, <2>4, <2>5, TypeParts
<1>2. CodesInv
  BY
    DEF Init, CodesInv, ErrorsEarly, CodeLate, UnsavedBefore, SavedAtSummary, CodesAtManifest,
        CodesAtEnd
<1>3. WorkspaceInv
  BY
    DEF Init, WorkspaceInv, NoWorkspace, NoChild, KindChosen, KindKnown, AnswerTold, LeaseHeld,
        MountIsLeased, Unasked, Asked, UnityRuns, Prepared, Unprepared, LeftoverTold, ChildKept,
        ShellKept, DeferredRemoves
<1>4. ContextInv
  BY DEF Init, ContextInv, CutFollows, CutUnsafe
<1>5. EventsInv
  <2>1. events = <<>>
    BY DEF Init
  <2>2. \A i \in 1..Len(events) : FALSE
    BY <2>1
  <2> QED
    BY <2>2, TerminalPhases
      DEF Init, EventsInv, WriteAgrees, WriteIsLast, WriteTellsEnd, EventsAgree
<1> QED
  BY <1>1, <1>2, <1>3, <1>4, <1>5 DEF RunInv

\* Every step keeps the types.
LEMMA TypeStep == TypeOK /\ [Next]_vars => TypeOK'
<1> SUFFICES ASSUME TypeOK, [Next]_vars PROVE TypeOK'
  OBVIOUS
<1>1. MainType' /\ StatusType' /\ ContextType' /\ WorkspaceType' /\ ResultType'
  <2>1. CASE Next
    BY <2>1, MainTyped, StatusTyped, ContextTyped, WorkspaceTyped, ResultTyped
  <2>2. CASE UNCHANGED vars
    <3> USE TypeParts, <2>2 DEF vars
    <3>1. MainType'
      BY DEF MainType
    <3>2. StatusType'
      BY DEF StatusType, statusVars
    <3>3. ContextType'
      BY DEF ContextType, contextVars
    <3>4. WorkspaceType'
      BY DEF WorkspaceType, workspaceVars
    <3>5. ResultType'
      BY DEF ResultType, resultVars
    <3> QED
      BY <3>1, <3>2, <3>3, <3>4, <3>5
  <2> QED
    BY <2>1, <2>2
<1> QED
  BY <1>1 DEF TypeOK, MainType, StatusType, ContextType, WorkspaceType, ResultType,
     Phased, Coded, Warned, Logs

\* Every step keeps the invariant.
LEMMA StepInv == RunInv /\ [Next]_vars => RunInv'
<1> SUFFICES ASSUME RunInv, [Next]_vars PROVE RunInv'
  OBVIOUS
<1>0. TypeOK /\ CodesInv /\ WorkspaceInv /\ ContextInv /\ EventsInv
  BY DEF RunInv
<1>1. CASE Next
  <2>1. TypeOK'
    BY <1>0, <1>1, TypeStep
  <2>2. CodesInv'
    BY <1>0, <1>1, Actions, CodesBackground, CodesPreparing, CodesRunning,
       CodesReleasing, CodesSaving
  <2>3. WorkspaceInv'
    BY <1>0, <1>1, Actions, WorkspaceBackground, WorkspacePreparing, WorkspaceRunning,
       WorkspaceReleasing, WorkspaceSaving
  <2>4. ContextInv'
    BY <1>0, <1>1, Actions, ContextBackground, ContextPreparing, ContextRunning,
       ContextReleasing, ContextSaving
  <2>5. EventsInv'
    BY <1>0, <1>1, EventsStep
  <2> QED
    BY <2>1, <2>2, <2>3, <2>4, <2>5 DEF RunInv
<1>2. CASE UNCHANGED vars
  <2>1. TypeOK'
    BY <1>0, <1>2, TypeStep
  <2>2. CodesInv'
    BY <1>0, <1>2
      DEF vars, resultVars, CodesInv, ErrorsEarly, CodeLate, UnsavedBefore,
            SavedAtSummary, CodesAtManifest, CodesAtEnd
  <2>3. WorkspaceInv'
    BY <1>0, <1>2
      DEF vars, workspaceVars, resultVars, WorkspaceInv, NoWorkspace, NoChild,
            KindChosen, KindKnown, AnswerTold, LeaseHeld, MountIsLeased, Unasked,
            Asked, UnityRuns, Prepared, Unprepared, LeftoverTold, ChildKept, ShellKept,
            DeferredRemoves
  <2>4. ContextInv'
    BY <1>0, <1>2 DEF vars, contextVars, workspaceVars, ContextInv, CutFollows, CutUnsafe
  <2>5. EventsInv'
    BY <1>0, <1>2
      DEF vars, statusVars, contextVars, resultVars, EventsInv, WriteAgrees,
            WriteIsLast, WriteTellsEnd, EventsAgree, Agrees
  <2> QED
    BY <2>1, <2>2, <2>3, <2>4, <2>5 DEF RunInv
<1> QED
  BY <1>1, <1>2

\* The inductive invariant holds in every reachable state.
THEOREM Invariant == Spec => []RunInv
BY InitInv, StepInv, PTL DEF Spec

\* Every variable has its type, for every set of requests.
THEOREM TypeCorrect == Spec => []TypeOK
<1>1. RunInv => TypeOK
  BY DEF RunInv
<1> QED
  BY <1>1, Invariant, PTL

\* The exit code of the process is 9 or the one in the three files of the run,
\* whichever writes fail.
THEOREM CodesPersisted == Spec => []ExitTellsPersisted
<1>1. RunInv => ExitTellsPersisted
  BY DEF RunInv, CodesInv, CodesAtEnd, Over, ExitTellsPersisted
<1> QED
  BY <1>1, Invariant, PTL

\* Of a workspace with a leased child nothing is lost, removed too early or left
\* unsaid, through every fallback, failed release and deferred retry.
THEOREM WorkspaceAccounted == Spec => []WorkspaceIsAccountedFor
<1>1. RunInv => NoSilentLeftover
  BY
    DEF RunInv, WorkspaceInv, LeftoverTold, NoWorkspace, MountIsLeased, LeaseHeld, Using, Over,
        Results, NoSilentLeftover
<1>2. RunInv => ShellOutlivesChild
  BY
    DEF RunInv, WorkspaceInv, LeaseHeld, MountIsLeased, UnityRuns, Prepared, Using,
        ShellOutlivesChild
<1>3. RunInv => KeepIsKept
  BY DEF RunInv, WorkspaceInv, ChildKept, ShellKept, KeepIsKept
<1> QED
  BY <1>1, <1>2, <1>3, Invariant, PTL DEF WorkspaceIsAccountedFor

\* The event log has at most one terminal event, its last, and it agrees with the
\* result: the safety part of RunEnds, in every state and not only the last.
THEOREM EventsTrue == Spec => []EventsTellOutcome
<1>1. RunInv => EventsTellOutcome
  BY DEF RunInv, EventsInv, EventsAgree, Agrees, EventsTellOutcome
<1> QED
  BY <1>1, Invariant, PTL

-----------------------------------------------------------------------------
(* The scenario runner: the lemmas of its operators *)

\* A nonempty set of naturals has a least element: the minimal counterexample takes the
\* place of induction in what follows.
LEMMA LeastOf ==
  ASSUME NEW S, S \subseteq Nat, S # {}
  PROVE  \E m \in S : \A n \in S : m <= n
<1>1. IsWellFoundedOn(OpToRel(<, Nat), Nat)
  BY NatLessThanWellFounded
<1>2. PICK m \in S : \A n \in S : <<n, m>> \notin OpToRel(<, Nat)
  BY <1>1, WFMin
<1>3. ASSUME NEW n \in S PROVE m <= n
  <2>1. ~ (n < m)
    BY <1>2 DEF OpToRel
  <2> QED
    BY <2>1
<1> QED
  BY <1>2, <1>3

Ascending(s) == \A i, j \in DOMAIN s : i < j => s[i] < s[j]

\* A set of positions can be put in order.
LEMMA OrderExists ==
  ASSUME NEW n \in Nat, NEW S \in SUBSET (1..n)
  PROVE  \E s \in [1..Cardinality(S) -> S] : Ascending(s)
<1> DEFINE Orders(T) == \E s \in [1..Cardinality(T) -> T] : Ascending(s)
<1> DEFINE Bad == {k \in Nat : \E T \in SUBSET (1..k) : ~Orders(T)}
<1>0. Bad \subseteq Nat
  OBVIOUS
<1> SUFFICES ASSUME Bad # {} PROVE FALSE
  OBVIOUS
<1> HIDE DEF Orders, Bad
<1>1. PICK m \in Bad : \A k \in Bad : m <= k
  BY <1>0, LeastOf
<1>2. m \in Nat /\ \E T \in SUBSET (1..m) : ~Orders(T)
  BY <1>1 DEF Bad
<1>3. PICK T \in SUBSET (1..m) : ~Orders(T)
  BY <1>2
<1>4. IsFiniteSet(T) /\ Cardinality(T) \in Nat
  <2>1. IsFiniteSet(1..m)
    BY <1>2, FS_Interval
  <2> QED
    BY <2>1, FS_Subset, FS_CardinalityType
<1>5. CASE m = 0
  <2>1. T = {}
    BY <1>2, <1>5
  <2>2. Cardinality(T) = 0
    BY <2>1, FS_EmptySet
  <2>3. [i \in 1..0 |-> i] \in [1..Cardinality(T) -> T] /\ Ascending([i \in 1..0 |-> i])
    BY <2>2 DEF Ascending
  <2> QED
    BY <2>3, <1>3 DEF Orders
<1>6. CASE m # 0
  <2>1. m - 1 \in Nat /\ m - 1 < m
    BY <1>2, <1>6
  <2>2. \A U \in SUBSET (1..(m - 1)) : Orders(U)
    BY <2>1, <1>1 DEF Bad
  <2> DEFINE U == T \ {m}
  <2>3. U \in SUBSET (1..(m - 1))
    BY <1>2
  <2>4. PICK s \in [1..Cardinality(U) -> U] : Ascending(s)
    BY <2>2, <2>3 DEF Orders
  <2>5. Cardinality(U) = IF m \in T THEN Cardinality(T) - 1 ELSE Cardinality(T)
    BY <1>4, FS_RemoveElement
  <2>6. m \in T
    <3> SUFFICES ASSUME m \notin T PROVE FALSE
      OBVIOUS
    <3>1. U = T
      OBVIOUS
    <3> QED
      BY <2>4, <3>1, <1>3 DEF Orders
  <2> DEFINE c == Cardinality(T)
  <2>7. c \in Nat /\ c - 1 = Cardinality(U) /\ c # 0
    BY <2>5, <2>6, <1>4, FS_EmptySet
  <2> HIDE DEF c
  <2> DEFINE t == [i \in 1..c |-> IF i = c THEN m ELSE s[i]]
  <2>8. \A i \in 1..c : i # c => i \in 1..Cardinality(U)
    BY <2>7
  <2>9. t \in [1..c -> T]
    BY <2>8, <2>6, <2>4
  <2>10. \A i \in 1..c : i # c => s[i] \in 1..(m - 1)
    BY <2>8, <2>3, <2>4
  <2>11. ASSUME NEW i \in 1..c, NEW j \in 1..c, i < j PROVE t[i] < t[j]
    <3>1. i # c
      BY <2>11, <2>7
    <3>a. t[i] = s[i] /\ s[i] \in 1..(m - 1)
      BY <3>1, <2>10
    <3>2. CASE j = c
      BY <3>a, <3>2, <2>1, <1>2
    <3>3. CASE j # c
      <4>1. i \in DOMAIN s /\ j \in DOMAIN s
        BY <2>8, <3>1, <3>3, <2>4
      <4> QED
        BY <4>1, <3>a, <3>3, <2>4, <2>11 DEF Ascending
    <3> QED
      BY <3>2, <3>3
  <2>12. Ascending(t)
    BY <2>11 DEF Ascending
  <2> QED
    BY <2>9, <2>12, <1>3 DEF Orders, c
<1> QED
  BY <1>5, <1>6

\* InOrder puts a set of positions in order and omits none.
LEMMA InOrderIs ==
  ASSUME NEW n \in Nat, NEW S \in SUBSET (1..n)
  PROVE  /\ InOrder(S) \in [1..Cardinality(S) -> S] /\ Cardinality(S) \in Nat
         /\ Ascending(InOrder(S))
         /\ Range(InOrder(S)) = S
<1>1. IsFiniteSet(S) /\ Cardinality(S) \in Nat
  <2>1. IsFiniteSet(1..n)
    BY FS_Interval
  <2> QED
    BY <2>1, FS_Subset, FS_CardinalityType
<1> DEFINE c == Cardinality(S)
<1> DEFINE s == InOrder(S)
<1>2. s \in [1..c -> S] /\ Ascending(s)
  BY OrderExists, Zenon DEF InOrder, Ascending
<1> HIDE DEF s
<1>3. ASSUME NEW i \in 1..c, NEW j \in 1..c, i # j PROVE s[i] # s[j]
  <2>1. s[i] \in 1..n /\ s[j] \in 1..n
    BY <1>2
  <2>2. i < j \/ j < i
    BY <1>1, <1>3
  <2> QED
    BY <2>1, <2>2, <1>2 DEF Ascending
<1>4. s \in Injection(1..c, S)
  BY <1>2, <1>3 DEF Injection, IsInjective
<1>5. IsFiniteSet(1..c) /\ Cardinality(1..c) = c
  BY <1>1, FS_Interval
<1>6. s \in Surjection(1..c, S)
  BY <1>1, <1>4, <1>5, FS_Injection
<1>7. Range(s) = S
  BY <1>2, <1>6 DEF Surjection, Range
<1> QED
  BY <1>1, <1>2, <1>7 DEF s

\* There is one order only.
LEMMA OrderIsUnique ==
  ASSUME NEW m \in Nat, NEW n \in Nat, NEW s \in [1..m -> Nat], NEW t \in [1..n -> Nat],
         Ascending(s), Ascending(t), Range(s) = Range(t)
  PROVE  s = t
<1> DEFINE Differ == {i \in 1..m : i \notin 1..n \/ s[i] # t[i]}
<1>1. ASSUME NEW x \in 1..m PROVE \E j \in 1..n : t[j] = s[x]
  BY DEF Range
<1>2. ASSUME NEW x \in 1..n PROVE \E j \in 1..m : s[j] = t[x]
  BY DEF Range
<1>3. Differ = {}
  <2> SUFFICES ASSUME Differ # {} PROVE FALSE
    OBVIOUS
  <2>1. Differ \subseteq Nat
    OBVIOUS
  <2>2. PICK i \in Differ : \A j \in Differ : i <= j
    BY <2>1, LeastOf
  <2>3. i \in 1..m /\ i \in Nat
    OBVIOUS
  <2>4. \A j \in 1..(i - 1) : j \in 1..n /\ j \in 1..m /\ s[j] = t[j]
    BY <2>2, <2>3
  <2>5. PICK j \in 1..n : t[j] = s[i]
    BY <1>1, <2>3
  <2>6. ~ (j < i)
    <3> SUFFICES ASSUME j < i PROVE FALSE
      OBVIOUS
    <3>1. j \in 1..(i - 1)
      BY <2>3
    <3>2. s[j] = s[i] /\ s[j] < s[i]
      BY <3>1, <2>3, <2>4, <2>5 DEF Ascending
    <3> QED
      BY <3>2, <2>3
  <2>7. i \in 1..n
    BY <2>3, <2>6
  <2>8. i # j
    BY <2>2, <2>5, <2>7
  <2>9. t[i] < s[i] /\ t[i] \in Nat
    BY <2>3, <2>5, <2>6, <2>7, <2>8 DEF Ascending
  <2>10. PICK k \in 1..m : s[k] = t[i]
    BY <1>2, <2>7
  <2>11. ~ (i < k) /\ k # i
    BY <2>3, <2>9, <2>10 DEF Ascending
  <2>12. k \in 1..(i - 1)
    BY <2>3, <2>11
  <2>13. t[k] = t[i] /\ t[k] < t[i]
    BY <2>4, <2>7, <2>10, <2>12 DEF Ascending
  <2> QED
    BY <2>13, <2>9
<1>4. m <= n /\ \A i \in 1..m : s[i] = t[i]
  <2>1. \A i \in 1..m : i \in 1..n /\ s[i] = t[i]
    BY <1>3
  <2>2. m = 0 \/ m \in 1..m
    OBVIOUS
  <2> QED
    BY <2>1, <2>2
<1>5. n <= m
  <2> SUFFICES ASSUME m < n PROVE FALSE
    OBVIOUS
  <2>1. n \in 1..n
    BY <1>4
  <2>2. PICK j \in 1..m : s[j] = t[n]
    BY <1>2, <2>1
  <2>3. t[j] = t[n] /\ t[j] < t[n] /\ t[n] \in Nat
    BY <1>4, <2>1, <2>2 DEF Ascending
  <2> QED
    BY <2>3
<1> QED
  BY <1>4, <1>5

Positions(a, b) == SUBSET (a..b)
Joins(A, B) == InOrder(A \cup B) = InOrder(A) \o InOrder(B)

\* The order of later positions comes after that of earlier ones.
LEMMA OrderAppends ==
  ASSUME NEW k \in Nat, NEW n \in Nat, k <= n,
         NEW A \in Positions(1, k), NEW B \in Positions(k + 1, n)
  PROVE  Joins(A, B)
<1>0. A \in SUBSET (1..k) /\ B \in SUBSET ((k + 1)..n)
  BY DEF Positions
<1>1. A \in SUBSET (1..n) /\ B \in SUBSET (1..n) /\ A \cup B \in SUBSET (1..n)
  BY <1>0
<1> DEFINE a == InOrder(A)
<1> DEFINE b == InOrder(B)
<1> DEFINE s == InOrder(A \cup B)
<1> DEFINE m == Cardinality(A \cup B)
<1> DEFINE l == Cardinality(A)
<1> DEFINE h == Cardinality(B)
<1>2. /\ a \in [1..l -> A] /\ l \in Nat /\ Ascending(a) /\ Range(a) = A
      /\ b \in [1..h -> B] /\ h \in Nat /\ Ascending(b) /\ Range(b) = B
      /\ s \in [1..m -> A \cup B] /\ m \in Nat /\ Ascending(s) /\ Range(s) = A \cup B
  BY <1>1, InOrderIs
<1> HIDE DEF a, b, s, m, l, h
<1>n. A \subseteq Nat /\ B \subseteq Nat /\ A \cup B \subseteq Nat
  BY <1>1
<1>f. a \in [1..l -> Nat] /\ b \in [1..h -> Nat] /\ s \in [1..m -> Nat]
  BY <1>n, <1>2
<1>3. a \in Seq(Nat) /\ b \in Seq(Nat) /\ Len(a) = l /\ Len(b) = h
  BY <1>f, <1>2
<1> DEFINE t == a \o b
<1>4. /\ t \in [1..(l + h) -> Nat]
      /\ \A i \in 1..l : t[i] = a[i] /\ t[i] \in A
      /\ \A i \in (l + 1)..(l + h) : t[i] = b[i - l] /\ i - l \in 1..h /\ t[i] \in B
  <2>1. Len(t) = l + h /\ t \in Seq(Nat)
    BY <1>3, ConcatProperties
  <2>2. \A i \in 1..(l + h) : t[i] = IF i <= l THEN a[i] ELSE b[i - l]
    BY <1>3, ConcatProperties
  <2>3. t \in [1..(l + h) -> Nat]
    <3>1. t \in [1..Len(t) -> Nat]
      BY <2>1, LenProperties
    <3> QED
      BY <2>1, <3>1
  <2>4. ASSUME NEW i \in 1..l PROVE t[i] = a[i] /\ t[i] \in A
    BY <2>2, <1>2
  <2>5. ASSUME NEW i \in (l + 1)..(l + h) PROVE t[i] = b[i - l] /\ i - l \in 1..h /\ t[i] \in B
    <3>1. i - l \in 1..h /\ i \in 1..(l + h) /\ ~ (i <= l)
      BY <1>2
    <3> QED
      BY <3>1, <2>2, <1>2
  <2> QED
    BY <2>3, <2>4, <2>5
<1> HIDE DEF t
<1>5. ASSUME NEW i \in 1..(l + h), NEW j \in 1..(l + h), i < j PROVE t[i] < t[j]
  <2>1. CASE j <= l
    BY <2>1, <1>2, <1>4, <1>5 DEF Ascending
  <2>2. CASE i > l
    <3>1. i - l \in 1..h /\ j - l \in 1..h /\ i - l < j - l
      BY <2>2, <1>2, <1>5
    <3>2. t[i] = b[i - l] /\ t[j] = b[j - l]
      BY <2>2, <1>2, <1>4, <1>5
    <3> QED
      BY <3>1, <3>2, <1>2 DEF Ascending
  <2>3. CASE i <= l /\ j > l
    <3>1. t[i] \in A /\ t[j] \in B
      BY <2>3, <1>2, <1>4, <1>5
    <3>2. t[i] \in 1..k /\ t[j] \in (k + 1)..n
      BY <3>1, <1>0
    <3> QED
      BY <3>2
  <2> QED
    BY <2>1, <2>2, <2>3, <1>2
<1>6. Ascending(t)
  BY <1>4, <1>5 DEF Ascending
<1>7. Range(t) = A \cup B
  <2>1. Range(t) \subseteq A \cup B
    BY <1>2, <1>4 DEF Range
  <2>2. ASSUME NEW x \in A PROVE x \in Range(t)
    <3>1. PICK i \in 1..l : a[i] = x
      BY <1>2 DEF Range
    <3> QED
      BY <3>1, <1>2, <1>4 DEF Range
  <2>3. ASSUME NEW x \in B PROVE x \in Range(t)
    <3>1. PICK i \in 1..h : b[i] = x
      BY <1>2 DEF Range
    <3>2. i + l \in (l + 1)..(l + h) /\ (i + l) - l = i /\ i + l \in 1..(l + h)
      BY <3>1, <1>2
    <3> QED
      BY <3>1, <3>2, <1>4 DEF Range
  <2> QED
    BY <2>1, <2>2, <2>3
<1>8. l + h \in Nat
  BY <1>2
<1>9. s = t
  BY <1>f, <1>2, <1>4, <1>6, <1>7, <1>8, OrderIsUnique
<1> QED
  BY <1>9 DEF s, t, a, b, Joins

\* Adding a last element adds it to the range.
LEMMA AppendedRange ==
  ASSUME NEW T, NEW s \in Seq(T), NEW x \in T
  PROVE  Range(Append(s, x)) = Range(s) \cup {x}
<1> DEFINE t == Append(s, x)
<1> DEFINE n == Len(s)
<1>1. n \in Nat /\ DOMAIN s = 1..n /\ DOMAIN t = 1..(n + 1)
  BY AppendProperties, LenProperties
<1>2. \A i \in 1..n : t[i] = s[i]
  BY AppendProperties, LenProperties
<1>3. t[n + 1] = x
  BY AppendProperties
<1> HIDE DEF t, n
<1>4. \A i \in 1..(n + 1) : i \in 1..n \/ i = n + 1
  BY <1>1
<1>5. n + 1 \in 1..(n + 1) /\ \A i \in 1..n : i \in 1..(n + 1)
  BY <1>1
<1>6. Range(t) \subseteq Range(s) \cup {x}
  BY <1>1, <1>2, <1>3, <1>4 DEF Range
<1>7. Range(s) \cup {x} \subseteq Range(t)
  BY <1>1, <1>2, <1>3, <1>5 DEF Range
<1> QED
  BY <1>6, <1>7 DEF t

\* A nonempty set of positions has a last one.
LEMMA MaxIsLast ==
  ASSUME NEW n \in Nat, NEW S \in SUBSET (1..n), S # {}
  PROVE  Max(S) \in S /\ \A k \in S : k <= Max(S)
<1> DEFINE T == {n - k : k \in S}
<1>a. ASSUME NEW k \in S PROVE n - k \in Nat
  <2>1. k \in 1..n
    OBVIOUS
  <2> QED
    BY <2>1
<1>1. T \subseteq Nat /\ T # {}
  <2>1. T \subseteq Nat
    BY <1>a
  <2>2. PICK k \in S : TRUE
    OBVIOUS
  <2>3. n - k \in T
    BY <2>2
  <2> QED
    BY <2>1, <2>3
<1>2. PICK m \in T : \A k \in T : m <= k
  BY <1>1, LeastOf
<1>3. PICK x \in S : m = n - x
  BY <1>2
<1>4. ASSUME NEW k \in S PROVE x >= k
  <2>1. n - k \in T
    OBVIOUS
  <2>2. n - x <= n - k
    BY <2>1, <1>2, <1>3
  <2> QED
    BY <2>2, <1>3
<1>5. \E y \in S : \A k \in S : y >= k
  BY <1>3, <1>4
<1>6. Max(S) \in S /\ \A k \in S : Max(S) >= k
  BY <1>5, Zenon DEF Max
<1>7. Max(S) \in 1..n
  BY <1>6
<1>8. ASSUME NEW k \in S PROVE k <= Max(S)
  BY <1>6, <1>7
<1> QED
  BY <1>6, <1>8

\* A set of exit codes has a most severe one.
LEMMA MostSevereExists ==
  ASSUME NEW codes, codes \subseteq Nat, codes # {}
  PROVE  \E c \in codes : \A d \in codes : ExitCodeSeverity(d) <= ExitCodeSeverity(c)
<1>1. \A c \in Nat : ExitCodeSeverity(c) \in 0..100
  BY DEF ExitCodeSeverity
<1> DEFINE T == {100 - ExitCodeSeverity(c) : c \in codes}
<1>a. ASSUME NEW c \in codes PROVE 100 - ExitCodeSeverity(c) \in Nat
  <2>1. ExitCodeSeverity(c) \in 0..100
    BY <1>1
  <2> QED
    BY <2>1
<1>2. T \subseteq Nat /\ T # {}
  BY <1>a
<1>3. PICK m \in T : \A k \in T : m <= k
  BY <1>2, LeastOf
<1>4. PICK c \in codes : m = 100 - ExitCodeSeverity(c)
  BY <1>3
<1>5. ASSUME NEW d \in codes PROVE ExitCodeSeverity(d) <= ExitCodeSeverity(c)
  <2>1. 100 - ExitCodeSeverity(d) \in T
    OBVIOUS
  <2>2. 100 - ExitCodeSeverity(c) <= 100 - ExitCodeSeverity(d)
    BY <2>1, <1>3, <1>4
  <2> QED
    BY <2>2, <1>1
<1> QED
  BY <1>4, <1>5

\* The phase a dependency signals is the one its dependents wait for, in every file
\* that loads (runner.go 119-150, spec.go 140-200).
LEMMA SignalIsAsked ==
  ASSUME NEW f \in Files, Loads(f), NEW r \in DOMAIN f, f[r].dep # NoRole
  PROVE  f[r].dep \in DOMAIN f /\ SignalPhase(f, f[r].dep) = DependencyPhase(f, r)
<1> DEFINE d == f[r].dep
<1>1. d \in DOMAIN f
  BY DEF Loads
<1>2. f[r] \in InstanceSpec /\ f[d] \in InstanceSpec
  BY <1>1, ScenarioAssumption
<1>3. PhasesAgree(f)
  BY DEF Loads
<1>4. /\ f[d].readyPhase # "" /\ f[r].depPhase # "" => f[d].readyPhase = f[r].depPhase
      /\ \A c \in DOMAIN f : f[c].dep = d => DependencyPhase(f, c) = DependencyPhase(f, r)
  BY <1>3 DEF PhasesAgree
<1> DEFINE asking == {c \in DOMAIN f : f[c].dep = d /\ f[c].depPhase # ""}
<1> DEFINE c == CHOOSE c \in asking : TRUE
<1>5. CASE f[d].readyPhase # ""
  <2>1. SignalPhase(f, d) = f[d].readyPhase
    BY <1>5 DEF SignalPhase, EffectiveReadyPhase
  <2>2. DependencyPhase(f, r) = f[d].readyPhase
    BY <1>4, <1>5 DEF DependencyPhase, EffectiveReadyPhase
  <2> QED
    BY <2>1, <2>2, <1>1
<1>6. CASE f[d].readyPhase = "" /\ asking = {}
  <2>1. SignalPhase(f, d) = EffectiveReadyPhase(f[d])
    BY <1>6 DEF SignalPhase
  <2>2. f[r].depPhase = ""
    BY <1>6
  <2> QED
    BY <2>1, <2>2, <1>1 DEF DependencyPhase
<1>7. CASE f[d].readyPhase = "" /\ asking # {}
  <2>1. c \in asking
    BY <1>7, Zenon
  <2>2. SignalPhase(f, d) = f[c].depPhase
    BY <1>7 DEF SignalPhase
  <2>3. c \in DOMAIN f /\ f[c].dep = d /\ f[c].depPhase # ""
    BY <2>1
  <2> HIDE DEF c
  <2>4. DependencyPhase(f, c) = f[c].depPhase
    BY <2>3 DEF DependencyPhase
  <2> QED
    BY <2>2, <2>3, <2>4, <1>1, <1>4
<1> QED
  BY <1>5, <1>6, <1>7

-----------------------------------------------------------------------------
(* The inductive invariant of a scenario *)

\* The type invariant, by the groups of variables that actions leave alone.
CommandType ==
    /\ scenario \in Files
    /\ command \in {"loading", "started", "reported", "rejected"}
    /\ ipc \in BOOLEAN /\ cancelled \in BOOLEAN
    /\ exitCode \in Nat
InstancesType ==
    /\ stage \in [Roles -> InstanceStages]
    /\ log \in [Roles -> Seq(RunPhases)]
    /\ ready \in [Roles -> BOOLEAN] /\ done \in [Roles -> BOOLEAN]
    /\ verdict \in [Roles -> Outcomes] /\ results \in [Roles -> Outcomes]
    /\ \A e \in orchErrs : e.role \in Roles /\ e.dep \in Roles
LinesType == bus \in Seq(Line) /\ Len(bus) <= MaxMessages
ReadersType ==
    /\ reader \in [Roles -> {"off", "on", "stopped"}]
    /\ offset \in [Roles -> 0..MaxMessages]
    /\ ipcEvents \in [Roles -> Seq(1..MaxMessages)]
    /\ skipped \in [Roles -> SUBSET (1..MaxMessages)]

\* The goroutine of an instance is past its run.
Past == {"stopping", "recorded", "finished"}

\* A goroutine begins only when the file has been loaded.
LoadedInv ==
    /\ command \in {"started", "reported"} => Loads(scenario)
    /\ command \in {"loading", "rejected"} => \A r \in Roles : stage[r] = "idle"

\* The two channels of an instance say what it has written and that it has ended.
SignalInv(r) ==
    /\ ready[r] <=> SignalPhase(scenario, r) \in Range(log[r])
    /\ done[r] <=> stage[r] = "finished"
    /\ stage[r] \in {"idle", "waiting"} => log[r] = <<>>

\* An instance runs once its dependency is ready, and gives up because that one has
\* ended only if it was not.
GateInv(r) ==
    /\ stage[r] = "waiting" => scenario[r].dep # NoRole
    /\ stage[r] = "running" \/ log[r] # <<>> => scenario[r].dep = NoRole \/ ready[scenario[r].dep]
    /\ stage[r] \in Past /\ verdict[r].why \in {"fastfail", "timeout"} => scenario[r].dep # NoRole
    /\ stage[r] \in Past /\ verdict[r].why = "fastfail" =>
          done[scenario[r].dep] /\ ~ready[scenario[r].dep]

\* The positions that a reader has passed and that are shown to its role.
Passed(r) == {i \in 1..offset[r] : Visible(r, bus[i])} \ skipped[r]

\* What a reader has emitted.
EmittedInv(r) ==
    /\ offset[r] <= Len(bus) /\ skipped[r] \subseteq 1..offset[r]
    /\ ipcEvents[r] = InOrder(Passed(r))

\* What a reader that was stopped by its owner has read: all that the owner has sent,
\* and all that a dependency whose end the owner has seen has sent.
StoppedInv(r) ==
    /\ stage[r] \in {"recorded", "finished"} => reader[r] # "on"
    /\ stage[r] = "idle" => reader[r] = "off"
    /\ reader[r] = "stopped" /\ ~cancelled =>
          /\ stage[r] \in Past
          /\ \A i \in DOMAIN bus : bus[i].from = r => i <= offset[r]
          /\ verdict[r].why = "fastfail" =>
                \A i \in DOMAIN bus : bus[i].from = scenario[r].dep => i <= offset[r]

\* What an error has quoted stays so.
ErrorInv(e) ==
    /\ e.role \in DOMAIN scenario /\ e.dep \in DOMAIN scenario
    /\ e.dep = scenario[e.role].dep /\ stage[e.role] \in {"recorded", "finished"}
    /\ e.why = "fastfail" =>
          /\ done[e.dep] /\ ~ready[e.dep] /\ results[e.dep] = e.found
          /\ reader[e.role] = "stopped" /\ ~cancelled /\ skipped[e.role] = {} =>
                \A i \in DOMAIN bus : bus[i].from = e.dep /\ bus[i].to = e.role => i <= e.heard

ScenarioTypes == CommandType /\ InstancesType /\ LinesType /\ ReadersType
Signals == \A r \in DOMAIN scenario : SignalInv(r)
Gates == \A r \in DOMAIN scenario : GateInv(r)
Emitted == \A r \in DOMAIN scenario : EmittedInv(r)
Stops == \A r \in DOMAIN scenario : StoppedInv(r)
Errors == \A e \in orchErrs : ErrorInv(e)

ScenarioInv == ScenarioTypes /\ LoadedInv /\ Signals /\ Gates /\ Emitted /\ Stops /\ Errors

\* The parts are ScenarioTypeOK.
LEMMA ScenarioTypeParts ==
  ScenarioTypeOK <=> ScenarioTypes
BY DEF ScenarioTypeOK, ScenarioTypes, CommandType, InstancesType, LinesType, ReadersType

\* The roles of a scenario are roles, and its instances are instance specifications.
LEMMA ScenarioIs ==
  ASSUME CommandType
  PROVE  /\ DOMAIN scenario \subseteq Roles
         /\ \A r \in DOMAIN scenario : scenario[r] \in InstanceSpec
BY ScenarioAssumption DEF CommandType

\* An instance that has begun belongs to a scenario that loads, and the role it depends
\* on is one of the scenario's.
LEMMA BegunIsLoaded ==
  ASSUME CommandType, LoadedInv, NEW r \in Roles, stage[r] # "idle"
  PROVE  /\ Loads(scenario)
         /\ \A q \in DOMAIN scenario :
               scenario[q].dep # NoRole => scenario[q].dep \in DOMAIN scenario /\ scenario[q].dep # q
<1>1. Loads(scenario)
  BY DEF CommandType, LoadedInv
<1>2. \A q \in DOMAIN scenario : scenario[q].dep \in (DOMAIN scenario \ {q}) \union {NoRole}
  BY <1>1 DEF Loads
<1> QED
  BY <1>1, <1>2

\* A reader that has gone on to the end of the bus has emitted what it passed: the lines
\* it now reads come after those it had read.
LEMMA ReadSinceEmits ==
  ASSUME ScenarioTypes, NEW r \in DOMAIN scenario, EmittedInv(r), ReadSince(r), bus' = bus
  PROVE  /\ offset' = [offset EXCEPT ![r] = Len(bus)]
         /\ offset' \in [Roles -> 0..MaxMessages]
         /\ ipcEvents' \in [Roles -> Seq(1..MaxMessages)]
         /\ skipped' \in [Roles -> SUBSET (1..MaxMessages)]
         /\ \A q \in Roles : q # r => /\ ipcEvents'[q] = ipcEvents[q]
                                      /\ skipped'[q] = skipped[q]
         /\ EmittedInv(r)'
         /\ skipped[r] \subseteq skipped'[r]
<1> DEFINE n == Len(bus)
<1> DEFINE k == offset[r]
<1> DEFINE new == k + 1 .. n
<1> DEFINE A == Passed(r)
<1> DEFINE B == {i \in new : bus[i].whole /\ Visible(r, bus[i])}
<1> DEFINE half == {i \in new : ~bus[i].whole}
<1>1. r \in Roles
  BY ScenarioIs DEF ScenarioTypes
<1>2. n \in Nat /\ n <= MaxMessages /\ MaxMessages \in Nat /\ bus \in [1..n -> Line]
  BY ScenarioAssumption, LenProperties DEF ScenarioTypes, LinesType
<1>3. k \in 0..MaxMessages /\ k <= n /\ skipped[r] \subseteq 1..k /\ ipcEvents[r] = InOrder(A)
  BY <1>1 DEF ScenarioTypes, ReadersType, EmittedInv
<1>4. /\ offset' = [offset EXCEPT ![r] = n]
      /\ ipcEvents' = [ipcEvents EXCEPT ![r] = @ \o InOrder(B)]
      /\ skipped' = [skipped EXCEPT ![r] = @ \union half]
  BY DEF ReadSince
<1> HIDE DEF n, k
<1>5. A \in SUBSET (1..k) /\ B \in SUBSET ((k + 1)..n) /\ k \in Nat
  BY <1>3 DEF Passed, k
<1>6. InOrder(A \cup B) = InOrder(A) \o InOrder(B)
  <2> HIDE DEF A, B, new
  <2>1. n \in Nat /\ k \in Nat /\ k <= n
    BY <1>2, <1>3, <1>5
  <2>2. A \in Positions(1, k) /\ B \in Positions(k + 1, n)
    BY <1>5 DEF Positions
  <2>3. Joins(A, B)
    BY <2>1, <2>2, OrderAppends
  <2> QED
    BY <2>3 DEF Joins
<1>7. /\ offset \in [Roles -> 0..MaxMessages] /\ ipcEvents \in [Roles -> Seq(1..MaxMessages)]
      /\ skipped \in [Roles -> SUBSET (1..MaxMessages)]
  BY DEF ScenarioTypes, ReadersType
<1>8. /\ offset'[r] = n /\ ipcEvents'[r] = InOrder(A) \o InOrder(B)
      /\ skipped'[r] = skipped[r] \union half
  BY <1>1, <1>3, <1>4, <1>7
<1>9. half \in SUBSET (1..MaxMessages) /\ half \subseteq 1..n
  BY <1>2, <1>3, <1>5
<1>10. skipped[r] \union half \in SUBSET (1..MaxMessages)
  BY <1>1, <1>7, <1>9
<1>11. InOrder(A \cup B) \in Seq(1..MaxMessages)
  <2>1. A \cup B \in SUBSET (1..MaxMessages)
    BY <1>2, <1>3, <1>5
  <2> DEFINE C == A \cup B
  <2>2. InOrder(C) \in [1..Cardinality(C) -> C] /\ Cardinality(C) \in Nat
    BY <2>1, <1>2, InOrderIs
  <2> HIDE DEF C
  <2>3. C \subseteq 1..MaxMessages
    BY <2>1 DEF C
  <2> DEFINE c == Cardinality(C)
  <2> DEFINE s == InOrder(C)
  <2> HIDE DEF c, s
  <2>a. s \in [1..c -> 1..MaxMessages] /\ c \in Nat
    BY <2>2, <2>3 DEF c, s
  <2> DEFINE T == 1..MaxMessages
  <2> HIDE DEF T
  <2>b. s \in [1..c -> T] /\ c \in Nat
    BY <2>a DEF T
  <2>c. s \in Seq(T)
    BY <2>b
  <2>4. s \in Seq(1..MaxMessages)
    BY <2>c DEF T
  <2> QED
    BY <2>4 DEF C, s
<1>12. offset' \in [Roles -> 0..MaxMessages]
  <2>1. n \in 0..MaxMessages
    BY <1>2
  <2> QED
    BY <2>1, <1>4, <1>7
<1>13. ipcEvents' \in [Roles -> Seq(1..MaxMessages)]
  <2>1. ipcEvents[r] \o InOrder(B) \in Seq(1..MaxMessages)
    BY <1>3, <1>6, <1>11
  <2> QED
    BY <2>1, <1>4, <1>7
<1>14. skipped' \in [Roles -> SUBSET (1..MaxMessages)]
  BY <1>10, <1>4, <1>7
<1>15. \A q \in Roles : q # r => ipcEvents'[q] = ipcEvents[q] /\ skipped'[q] = skipped[q]
  BY <1>4, <1>7
<1>16. Passed(r)' = A \cup B
  <2>1. Passed(r)' = {i \in 1..n : Visible(r, bus[i])} \ (skipped[r] \union half)
    BY <1>8 DEF Passed, Visible
  <2>2. \A i \in 1..n : i \in 1..k \/ i \in new
    BY <1>2, <1>3
  <2>3. \A i \in 1..k : i \in 1..n /\ i \notin new
    BY <1>2, <1>3
  <2>4. \A i \in new : i \in 1..n /\ i \notin skipped[r]
    BY <1>2, <1>3
  <2> QED
    BY <2>1, <2>2, <2>3, <2>4 DEF Passed, k
<1>17. EmittedInv(r)'
  <2>1. offset'[r] <= Len(bus')
    BY <1>2, <1>8 DEF n
  <2>2. skipped'[r] \subseteq 1..offset'[r]
    BY <1>2, <1>3, <1>8, <1>9
  <2>3. ipcEvents'[r] = InOrder(Passed(r)')
    BY <1>6, <1>8, <1>16
  <2> QED
    BY <2>1, <2>2, <2>3 DEF EmittedInv
<1> QED
  BY <1>4, <1>8, <1>12, <1>13, <1>14, <1>15, <1>17 DEF n

\* The order of no positions is empty.
LEMMA InOrderOfNone ==
  InOrder({}) = <<>>
<1>1. InOrder({}) \in [1..Cardinality({}) -> {}]
  BY InOrderIs
<1>2. Cardinality({}) = 0
  BY FS_EmptySet
<1>3. InOrder({}) \in [1..0 -> {}]
  BY <1>1, <1>2
<1> QED
  BY <1>3

\* Each part of the invariant stays true when what it is about does not change.
LEMMA Same ==
  ASSUME ScenarioInv
  PROVE  /\ UNCHANGED runVars => InstancesType'
         /\ UNCHANGED bus => LinesType'
         /\ UNCHANGED <<reader, offset, ipcEvents, skipped>> => ReadersType'
         /\ UNCHANGED <<scenario, command, stage>> => LoadedInv'
         /\ UNCHANGED <<scenario, stage, log, ready, done>> => Signals'
         /\ UNCHANGED <<scenario, stage, log, ready, done, verdict>> => Gates'
         /\ UNCHANGED <<scenario, bus, offset, ipcEvents, skipped>> => Emitted'
         /\ UNCHANGED <<scenario, stage, verdict, bus, reader,
                        offset>> /\ (cancelled => cancelled')
               => Stops'
         /\ UNCHANGED <<scenario, stage, done, ready, results, orchErrs, bus, reader, skipped>>
               /\ (cancelled => cancelled') => Errors'
<1>1. UNCHANGED runVars => InstancesType'
  BY DEF runVars, InstancesType, ScenarioInv, ScenarioTypes
<1>2. UNCHANGED bus => LinesType'
  BY DEF LinesType, ScenarioInv, ScenarioTypes
<1>3. UNCHANGED <<reader, offset, ipcEvents, skipped>> => ReadersType'
  BY DEF ReadersType, ScenarioInv, ScenarioTypes
<1>4. UNCHANGED <<scenario, command, stage>> => LoadedInv'
  BY DEF LoadedInv, ScenarioInv
<1>5. UNCHANGED <<scenario, stage, log, ready, done>> => Signals'
  BY Zenon DEF Signals, SignalInv, ScenarioInv
<1>6. UNCHANGED <<scenario, stage, log, ready, done, verdict>> => Gates'
  BY Zenon DEF Gates, GateInv, ScenarioInv
<1>7. UNCHANGED <<scenario, bus, offset, ipcEvents, skipped>> => Emitted'
  BY DEF Emitted, EmittedInv, Passed, ScenarioInv
<1>8. UNCHANGED <<scenario, stage, verdict, bus, reader, offset>> /\ (cancelled => cancelled')
         => Stops'
  BY Zenon DEF Stops, StoppedInv, ScenarioInv
<1>9. UNCHANGED <<scenario, stage, done, ready, results, orchErrs, bus, reader, skipped>>
         /\ (cancelled => cancelled') => Errors'
  BY ZenonT(60) DEF Errors, ErrorInv, ScenarioInv
<1> QED
  BY <1>1, <1>2, <1>3, <1>4, <1>5, <1>6, <1>7, <1>8, <1>9

\* The invariant holds before the file is loaded.
LEMMA InitHolds ==
  ASSUME ScenarioInit
  PROVE  ScenarioInv
<1>1. CommandType
  BY DEF ScenarioInit, CommandType, BusOutcomes
<1>2. InstancesType
  BY DEF ScenarioInit, InstancesType, NoOutcome, Outcomes, InstanceStages
<1>3. LinesType
  BY ScenarioAssumption DEF ScenarioInit, LinesType
<1>4. ReadersType
  BY ScenarioAssumption DEF ScenarioInit, ReadersType
<1>r. DOMAIN scenario \subseteq Roles
  BY <1>1, ScenarioIs
<1>5. LoadedInv
  BY DEF ScenarioInit, LoadedInv
<1>6. Signals
  BY <1>r DEF ScenarioInit, Signals, SignalInv, Range
<1>7. Gates
  BY <1>r DEF ScenarioInit, Gates, GateInv, Past
<1>8. Emitted
  <2> SUFFICES ASSUME NEW r \in DOMAIN scenario PROVE EmittedInv(r)
    BY DEF Emitted
  <2>1. r \in Roles
    BY <1>r
  <2>2. offset[r] = 0 /\ skipped[r] = {} /\ ipcEvents[r] = <<>> /\ bus = <<>>
    BY <2>1 DEF ScenarioInit
  <2>3. Passed(r) = {}
    BY <2>2 DEF Passed
  <2> QED
    BY <2>2, <2>3, InOrderOfNone DEF EmittedInv
<1>9. Stops
  BY <1>r DEF ScenarioInit, Stops, StoppedInv
<1>10. Errors
  BY DEF ScenarioInit, Errors
<1> QED
  BY <1>1, <1>2, <1>3, <1>4, <1>5, <1>6, <1>7, <1>8, <1>9, <1>10 DEF ScenarioInv, ScenarioTypes

\* Loading the file.
LEMMA LoadKeeps ==
  ASSUME ScenarioInv, Load
  PROVE  ScenarioInv'
<1>inv. ScenarioTypes /\ CommandType /\ InstancesType /\ LinesType /\ ReadersType /\ LoadedInv
        /\ Signals /\ Gates /\ Emitted /\ Stops /\ Errors
  BY DEF ScenarioInv, ScenarioTypes
<1>u. UNCHANGED <<scenario, ipc, cancelled, runVars, busVars>>
  BY DEF Load
<1>v. UNCHANGED <<stage, log, ready, done, verdict, results, orchErrs, bus, reader, offset,
                  ipcEvents, skipped>>
  BY <1>u DEF runVars, busVars
<1>1. CommandType'
  BY <1>inv DEF Load, CommandType
<1>2. InstancesType'
  BY <1>u, Same
<1>3. LinesType'
  BY <1>v, Same
<1>4. ReadersType'
  BY <1>v, Same
<1>5. LoadedInv'
  BY <1>inv, <1>v DEF Load, LoadedInv
<1>6. Signals'
  BY <1>u, <1>v, Same
<1>7. Gates'
  BY <1>u, <1>v, Same
<1>8. Emitted'
  BY <1>u, <1>v, Same
<1>9. Stops'
  BY <1>u, <1>v, Same
<1>10. Errors'
  BY <1>u, <1>v, Same
<1> QED
  BY <1>1, <1>2, <1>3, <1>4, <1>5, <1>6, <1>7, <1>8, <1>9, <1>10 DEF ScenarioInv, ScenarioTypes

\* A cancelled scenario.
LEMMA CancelKeeps ==
  ASSUME ScenarioInv, Cancel
  PROVE  ScenarioInv'
<1>inv. ScenarioTypes /\ CommandType /\ InstancesType /\ LinesType /\ ReadersType /\ LoadedInv
        /\ Signals /\ Gates /\ Emitted /\ Stops /\ Errors
  BY DEF ScenarioInv, ScenarioTypes
<1>u. UNCHANGED <<scenario, ipc, command, runVars, exitCode, busVars>> /\ cancelled'
  BY DEF Cancel
<1>v. UNCHANGED <<stage, log, ready, done, verdict, results, orchErrs, bus, reader, offset,
                  ipcEvents, skipped>>
  BY <1>u DEF runVars, busVars
<1>1. CommandType'
  BY <1>inv DEF Cancel, CommandType
<1>2. InstancesType'
  BY <1>u, <1>v, Same
<1>3. LinesType'
  BY <1>u, <1>v, Same
<1>4. ReadersType'
  BY <1>u, <1>v, Same
<1>5. LoadedInv'
  BY <1>u, <1>v, Same
<1>6. Signals'
  BY <1>u, <1>v, Same
<1>7. Gates'
  BY <1>u, <1>v, Same
<1>8. Emitted'
  BY <1>u, <1>v, Same
<1>9. Stops'
  BY <1>u, <1>v, Same
<1>10. Errors'
  BY <1>u, <1>v, Same
<1> QED
  BY <1>1, <1>2, <1>3, <1>4, <1>5, <1>6, <1>7, <1>8, <1>9, <1>10 DEF ScenarioInv, ScenarioTypes

\* The exit code of a scenario is that of one of its instances, and the most severe.
LEMMA AggregateIs ==
  ASSUME ScenarioInv, command = "started"
  PROVE  /\ AggregateExitCode \in Nat
         /\ \E r \in DOMAIN scenario : AggregateExitCode = EffectiveCode(results[r])
         /\ \A r \in DOMAIN scenario :
               /\ EffectiveCode(results[r]) \in Nat
               /\ ExitCodeSeverity(EffectiveCode(results[r])) <= ExitCodeSeverity(AggregateExitCode)
<1>inv. ScenarioTypes /\ CommandType /\ InstancesType /\ LoadedInv
  BY DEF ScenarioInv, ScenarioTypes
<1> DEFINE codes == {EffectiveCode(results[r]) : r \in DOMAIN scenario}
<1>1. Loads(scenario) /\ DOMAIN scenario # {}
  BY <1>inv DEF LoadedInv, Loads
<1>2. ASSUME NEW r \in DOMAIN scenario PROVE EffectiveCode(results[r]) \in Nat
  <2>1. results[r] \in Outcomes
    BY <1>inv, ScenarioIs DEF InstancesType
  <2>2. Codes \union {0, 1, 4, 7} \subseteq Nat
    BY ScenarioAssumption
  <2>3. results[r].code \in Codes \union {0, 1, 4, 7}
    BY <2>1 DEF Outcomes
  <2>4. results[r].code \in Nat
    BY <2>2, <2>3
  <2> QED
    BY <2>4 DEF EffectiveCode
<1>3. codes \subseteq Nat /\ codes # {}
  BY <1>1, <1>2
<1>4. \E c \in codes : \A d \in codes : ExitCodeSeverity(d) <= ExitCodeSeverity(c)
  BY <1>3, MostSevereExists
<1>5. /\ AggregateExitCode \in codes
      /\ \A d \in codes : ExitCodeSeverity(d) <= ExitCodeSeverity(AggregateExitCode)
  BY <1>4, Zenon DEF AggregateExitCode
<1> QED
  BY <1>2, <1>3, <1>5

\* The report of a scenario, whose instances there are: one of their exit codes is the
\* most severe.
LEMMA ReportKeeps ==
  ASSUME ScenarioInv, ReportScenario
  PROVE  ScenarioInv'
<1>inv. ScenarioTypes /\ CommandType /\ InstancesType /\ LinesType /\ ReadersType /\ LoadedInv
        /\ Signals /\ Gates /\ Emitted /\ Stops /\ Errors
  BY DEF ScenarioInv, ScenarioTypes
<1>u. UNCHANGED <<scenario, ipc, cancelled, runVars, busVars>>
  BY DEF ReportScenario
<1>v. UNCHANGED <<stage, log, ready, done, verdict, results, orchErrs, bus, reader, offset,
                  ipcEvents, skipped>>
  BY <1>u DEF runVars, busVars
<1>c. AggregateExitCode \in Nat
  BY AggregateIs DEF ReportScenario
<1>1. CommandType'
  BY <1>inv, <1>c DEF ReportScenario, CommandType
<1>2. InstancesType'
  BY <1>u, <1>v, Same
<1>3. LinesType'
  BY <1>u, <1>v, Same
<1>4. ReadersType'
  BY <1>u, <1>v, Same
<1>5. LoadedInv'
  BY <1>inv, <1>v DEF ReportScenario, LoadedInv
<1>6. Signals'
  BY <1>u, <1>v, Same
<1>7. Gates'
  BY <1>u, <1>v, Same
<1>8. Emitted'
  BY <1>u, <1>v, Same
<1>9. Stops'
  BY <1>u, <1>v, Same
<1>10. Errors'
  BY <1>u, <1>v, Same
<1> QED
  BY <1>1, <1>2, <1>3, <1>4, <1>5, <1>6, <1>7, <1>8, <1>9, <1>10 DEF ScenarioInv, ScenarioTypes

\* The start of an instance.
LEMMA StartKeeps ==
  ASSUME ScenarioInv, NEW r \in DOMAIN scenario, Start(r)
  PROVE  ScenarioInv'
<1>inv. ScenarioTypes /\ CommandType /\ InstancesType /\ LinesType /\ ReadersType /\ LoadedInv
        /\ Signals /\ Gates /\ Emitted /\ Stops /\ Errors
  BY DEF ScenarioInv, ScenarioTypes
<1>r. r \in Roles /\ DOMAIN scenario \subseteq Roles
  BY <1>inv, ScenarioIs
<1>d. /\ command = "started" /\ stage[r] = "idle"
      /\ reader' = [reader EXCEPT ![r] = IF ipc THEN "on" ELSE "off"]
      /\ stage' = [stage EXCEPT ![r] = IF scenario[r].dep = NoRole THEN "running" ELSE "waiting"]
  BY DEF Start
<1>v. UNCHANGED <<scenario, ipc, command, cancelled, exitCode, log, ready, done, verdict,
                  results, orchErrs, bus, offset, ipcEvents, skipped>>
  BY DEF Start
<1>s. /\ stage'[r] = IF scenario[r].dep = NoRole THEN "running" ELSE "waiting"
      /\ \A q \in Roles : q # r => stage'[q] = stage[q]
      /\ reader'[r] \in {"on", "off"} /\ \A q \in Roles : q # r => reader'[q] = reader[q]
  BY <1>r, <1>d, <1>inv DEF InstancesType, ReadersType
<1>1. CommandType'
  BY <1>inv, <1>v DEF CommandType
<1>2. InstancesType'
  BY <1>inv, <1>r, <1>d, <1>v DEF InstancesType, InstanceStages
<1>3. LinesType'
  BY <1>v, Same
<1>4. ReadersType'
  BY <1>inv, <1>r, <1>d, <1>v DEF ReadersType
<1>5. LoadedInv'
  BY <1>inv, <1>d, <1>v DEF LoadedInv
<1>6. Signals'
  <2> SUFFICES ASSUME NEW q \in DOMAIN scenario PROVE SignalInv(q)'
    BY <1>v DEF Signals
  <2>1. q \in Roles /\ SignalInv(q)
    BY <1>inv, <1>r DEF Signals
  <2>2. CASE q = r
    BY <2>1, <2>2, <1>v, <1>s, <1>d DEF SignalInv
  <2>3. CASE q # r
    BY <2>1, <2>3, <1>v, <1>s DEF SignalInv
  <2> QED
    BY <2>2, <2>3
<1>7. Gates'
  <2> SUFFICES ASSUME NEW q \in DOMAIN scenario PROVE GateInv(q)'
    BY <1>v DEF Gates
  <2>1. q \in Roles /\ GateInv(q)
    BY <1>inv, <1>r DEF Gates
  <2>2. CASE q = r
    BY <2>1, <2>2, <1>v, <1>s, <1>d DEF GateInv, Past
  <2>3. CASE q # r
    BY <2>1, <2>3, <1>v, <1>s DEF GateInv
  <2> QED
    BY <2>2, <2>3
<1>8. Emitted'
  BY <1>v, Same
<1>9. Stops'
  <2> SUFFICES ASSUME NEW q \in DOMAIN scenario PROVE StoppedInv(q)'
    BY <1>v DEF Stops
  <2>1. q \in Roles /\ StoppedInv(q)
    BY <1>inv, <1>r DEF Stops
  <2>2. CASE q = r
    BY <2>1, <2>2, <1>v, <1>s, <1>d DEF StoppedInv, Past
  <2>3. CASE q # r
    BY <2>1, <2>3, <1>v, <1>s DEF StoppedInv
  <2> QED
    BY <2>2, <2>3
<1>10. Errors'
  <2> SUFFICES ASSUME NEW e \in orchErrs PROVE ErrorInv(e)'
    BY <1>v DEF Errors
  <2>1. ErrorInv(e) /\ e.role \in Roles /\ e.dep \in Roles
    BY <1>inv DEF Errors, InstancesType
  <2>2. e.role # r
    BY <2>1, <1>d DEF ErrorInv
  <2> QED
    BY <2>1, <2>2, <1>s, <1>v DEF ErrorInv
<1> QED
  BY <1>1, <1>2, <1>3, <1>4, <1>5, <1>6, <1>7, <1>8, <1>9, <1>10 DEF ScenarioInv, ScenarioTypes

\* An instance that was let through the gate.
LEMMA RunKeeps ==
  ASSUME ScenarioInv, NEW r \in DOMAIN scenario, RunInstance(r), stage[r] = "waiting",
         ready[scenario[r].dep]
  PROVE  ScenarioInv'
<1>inv. ScenarioTypes /\ CommandType /\ InstancesType /\ LinesType /\ ReadersType /\ LoadedInv
        /\ Signals /\ Gates /\ Emitted /\ Stops /\ Errors
  BY DEF ScenarioInv, ScenarioTypes
<1>r. r \in Roles /\ DOMAIN scenario \subseteq Roles
  BY <1>inv, ScenarioIs
<1>d. stage' = [stage EXCEPT ![r] = "running"]
  BY DEF RunInstance
<1>v. UNCHANGED <<scenario, ipc, command, cancelled, exitCode, log, ready, done, verdict,
                  results, orchErrs, bus, reader, offset, ipcEvents, skipped>>
  BY DEF RunInstance, busVars
<1>s. stage'[r] = "running" /\ \A q \in Roles : q # r => stage'[q] = stage[q]
  BY <1>r, <1>d, <1>inv DEF InstancesType
<1>g. stage[r] # "idle"
  OBVIOUS
<1>1. CommandType'
  BY <1>inv, <1>v DEF CommandType
<1>2. InstancesType'
  BY <1>inv, <1>r, <1>d, <1>v DEF InstancesType, InstanceStages
<1>3. LinesType'
  BY <1>v, Same
<1>4. ReadersType'
  BY <1>v, Same
<1>5. LoadedInv'
  BY <1>inv, <1>r, <1>v DEF LoadedInv, CommandType
<1>6. Signals'
  <2> SUFFICES ASSUME NEW q \in DOMAIN scenario PROVE SignalInv(q)'
    BY <1>v DEF Signals
  <2>1. q \in Roles /\ SignalInv(q)
    BY <1>inv, <1>r DEF Signals
  <2>2. CASE q = r
    BY <2>1, <2>2, <1>v, <1>s DEF SignalInv
  <2>3. CASE q # r
    BY <2>1, <2>3, <1>v, <1>s DEF SignalInv
  <2> QED
    BY <2>2, <2>3
<1>7. Gates'
  <2> SUFFICES ASSUME NEW q \in DOMAIN scenario PROVE GateInv(q)'
    BY <1>v DEF Gates
  <2>1. q \in Roles /\ GateInv(q)
    BY <1>inv, <1>r DEF Gates
  <2>2. CASE q = r
    BY <2>1, <2>2, <1>v, <1>s DEF GateInv, Past
  <2>3. CASE q # r
    BY <2>1, <2>3, <1>v, <1>s DEF GateInv
  <2> QED
    BY <2>2, <2>3
<1>8. Emitted'
  BY <1>v, Same
<1>9. Stops'
  <2> SUFFICES ASSUME NEW q \in DOMAIN scenario PROVE StoppedInv(q)'
    BY <1>v DEF Stops
  <2>1. q \in Roles /\ StoppedInv(q)
    BY <1>inv, <1>r DEF Stops
  <2>2. CASE q = r
    BY <2>1, <2>2, <1>v, <1>s DEF StoppedInv, Past
  <2>3. CASE q # r
    BY <2>1, <2>3, <1>v, <1>s DEF StoppedInv
  <2> QED
    BY <2>2, <2>3
<1>10. Errors'
  <2> SUFFICES ASSUME NEW e \in orchErrs PROVE ErrorInv(e)'
    BY <1>v DEF Errors
  <2>1. ErrorInv(e) /\ e.role \in Roles /\ e.dep \in Roles
    BY <1>inv DEF Errors, InstancesType
  <2>2. e.role # r
    BY <2>1 DEF ErrorInv
  <2> QED
    BY <2>1, <2>2, <1>s, <1>v DEF ErrorInv
<1> QED
  BY <1>1, <1>2, <1>3, <1>4, <1>5, <1>6, <1>7, <1>8, <1>9, <1>10 DEF ScenarioInv, ScenarioTypes

\* An instance that gives up or whose run has ended.
LEMMA StopKeeps ==
  ASSUME ScenarioInv, NEW r \in DOMAIN scenario, NEW outcome \in Outcomes, Stop(r, outcome),
         stage[r] \in {"waiting", "running"},
         outcome.why \in {"fastfail", "timeout"} => stage[r] = "waiting",
         outcome.why = "fastfail" => done[scenario[r].dep] /\ ~ready[scenario[r].dep]
  PROVE  ScenarioInv'
<1>inv. ScenarioTypes /\ CommandType /\ InstancesType /\ LinesType /\ ReadersType /\ LoadedInv
        /\ Signals /\ Gates /\ Emitted /\ Stops /\ Errors
  BY DEF ScenarioInv, ScenarioTypes
<1>r. r \in Roles /\ DOMAIN scenario \subseteq Roles
  BY <1>inv, ScenarioIs
<1>d. stage' = [stage EXCEPT ![r] = "stopping"] /\ verdict' = [verdict EXCEPT ![r] = outcome]
  BY DEF Stop
<1>v. UNCHANGED <<scenario, ipc, command, cancelled, exitCode, log, ready, done, results,
                  orchErrs, bus, reader, offset, ipcEvents, skipped>>
  BY DEF Stop, busVars
<1>s. stage'[r] = "stopping" /\ \A q \in Roles : q # r => stage'[q] = stage[q]
  BY <1>r, <1>d, <1>inv DEF InstancesType
<1>w. verdict'[r] = outcome /\ \A q \in Roles : q # r => verdict'[q] = verdict[q]
  BY <1>r, <1>d, <1>inv DEF InstancesType
<1>1. CommandType'
  BY <1>inv, <1>v DEF CommandType
<1>2. InstancesType'
  BY <1>inv, <1>r, <1>d, <1>v DEF InstancesType, InstanceStages
<1>3. LinesType'
  BY <1>v, Same
<1>4. ReadersType'
  BY <1>v, Same
<1>5. LoadedInv'
  BY <1>inv, <1>r, <1>v DEF LoadedInv, CommandType
<1>6. Signals'
  <2> SUFFICES ASSUME NEW q \in DOMAIN scenario PROVE SignalInv(q)'
    BY <1>v DEF Signals
  <2>1. q \in Roles /\ SignalInv(q)
    BY <1>inv, <1>r DEF Signals
  <2>2. CASE q = r
    BY <2>1, <2>2, <1>v, <1>s DEF SignalInv
  <2>3. CASE q # r
    BY <2>1, <2>3, <1>v, <1>s DEF SignalInv
  <2> QED
    BY <2>2, <2>3
<1>7. Gates'
  <2> SUFFICES ASSUME NEW q \in DOMAIN scenario PROVE GateInv(q)'
    BY <1>v DEF Gates
  <2>1. q \in Roles /\ GateInv(q)
    BY <1>inv, <1>r DEF Gates
  <2>2. CASE q = r
    BY <2>1, <2>2, <1>v, <1>s, <1>w DEF GateInv, Past
  <2>3. CASE q # r
    BY <2>1, <2>3, <1>v, <1>s, <1>w DEF GateInv
  <2> QED
    BY <2>2, <2>3
<1>8. Emitted'
  BY <1>v, Same
<1>9. Stops'
  <2> SUFFICES ASSUME NEW q \in DOMAIN scenario PROVE StoppedInv(q)'
    BY <1>v DEF Stops
  <2>1. q \in Roles /\ StoppedInv(q)
    BY <1>inv, <1>r DEF Stops
  <2>2. CASE q = r
    BY <2>1, <2>2, <1>v, <1>s, <1>w DEF StoppedInv, Past
  <2>3. CASE q # r
    BY <2>1, <2>3, <1>v, <1>s, <1>w DEF StoppedInv
  <2> QED
    BY <2>2, <2>3
<1>10. Errors'
  <2> SUFFICES ASSUME NEW e \in orchErrs PROVE ErrorInv(e)'
    BY <1>v DEF Errors
  <2>1. ErrorInv(e) /\ e.role \in Roles /\ e.dep \in Roles
    BY <1>inv DEF Errors, InstancesType
  <2>2. e.role # r
    BY <2>1 DEF ErrorInv
  <2> QED
    BY <2>1, <2>2, <1>s, <1>v DEF ErrorInv
<1> QED
  BY <1>1, <1>2, <1>3, <1>4, <1>5, <1>6, <1>7, <1>8, <1>9, <1>10 DEF ScenarioInv, ScenarioTypes

\* A phase written: the channel of the instance is closed when it is the one to signal.
LEMMA WriteKeeps ==
  ASSUME ScenarioInv, NEW r \in DOMAIN scenario, Write(r)
  PROVE  ScenarioInv'
<1>inv. ScenarioTypes /\ CommandType /\ InstancesType /\ LinesType /\ ReadersType /\ LoadedInv
        /\ Signals /\ Gates /\ Emitted /\ Stops /\ Errors
  BY DEF ScenarioInv, ScenarioTypes
<1>r. r \in Roles /\ DOMAIN scenario \subseteq Roles
  BY <1>inv, ScenarioIs
<1>p. PICK p \in NextPhases(r) :
        /\ log' = [log EXCEPT ![r] = Append(@, p)]
        /\ ready' = [ready EXCEPT ![r] = @ \/ p = SignalPhase(scenario, r)]
  BY DEF Write
<1>d. stage[r] = "running" /\ p \in RunPhases
  <2>1. p \in PhasesAfter(log[r], scenario[r].twoPhase)
    BY <1>p DEF NextPhases
  <2>2. p \in RunPhases
    BY <2>1 DEF PhasesAfter, RunPhases
  <2> QED
    BY <2>2 DEF Write
<1>v. UNCHANGED <<scenario, ipc, command, cancelled, exitCode, stage, done, verdict, results,
                  orchErrs, bus, reader, offset, ipcEvents, skipped>>
  BY DEF Write, busVars
<1>a. log[r] \in Seq(RunPhases)
  BY <1>inv, <1>r DEF InstancesType
<1>b. Append(log[r], p) \in Seq(RunPhases) /\ Range(Append(log[r], p)) = Range(log[r]) \cup {p}
  BY <1>a, <1>d, AppendedRange
<1>s. log'[r] = Append(log[r], p) /\ \A q \in Roles : q # r => log'[q] = log[q]
  BY <1>r, <1>p, <1>inv DEF InstancesType
<1>w. (ready'[r] <=> ready[r] \/ p = SignalPhase(scenario, r))
  BY <1>r, <1>p, <1>inv, Zenon DEF InstancesType
<1>x. \A q \in Roles : q # r => (ready'[q] <=> ready[q])
  BY <1>r, <1>p, <1>inv DEF InstancesType
<1>y. \A q \in Roles : ready[q] => ready'[q]
  BY <1>w, <1>x
<1>z. log' \in [Roles -> Seq(RunPhases)] /\ ready' \in [Roles -> BOOLEAN]
  BY <1>p, <1>r, <1>b, <1>inv DEF InstancesType
<1>g. stage[r] # "idle"
  BY <1>d
<1>l. /\ Loads(scenario)
      /\ \A q \in DOMAIN scenario :
            scenario[q].dep # NoRole => scenario[q].dep \in DOMAIN scenario /\ scenario[q].dep # q
  BY <1>inv, <1>r, <1>g, BegunIsLoaded
<1>f. SignalInv(r) /\ ~done[r]
  BY <1>inv, <1>d DEF Signals, SignalInv
<1>1. CommandType'
  BY <1>inv, <1>v DEF CommandType
<1>2. InstancesType'
  BY <1>inv, <1>z, <1>v DEF InstancesType
<1>3. LinesType'
  BY <1>v, Same
<1>4. ReadersType'
  BY <1>v, Same
<1>5. LoadedInv'
  BY <1>v, Same
<1>6. Signals'
  <2> SUFFICES ASSUME NEW q \in DOMAIN scenario PROVE SignalInv(q)'
    BY <1>v DEF Signals
  <2>1. q \in Roles /\ SignalInv(q)
    BY <1>inv, <1>r DEF Signals
  <2>2. CASE q = r
    BY <2>1, <2>2, <1>v, <1>s, <1>b, <1>w, <1>d DEF SignalInv
  <2>3. CASE q # r
    BY <2>1, <2>3, <1>v, <1>s, <1>x DEF SignalInv
  <2> QED
    BY <2>2, <2>3
<1>7. Gates'
  <2> SUFFICES ASSUME NEW q \in DOMAIN scenario PROVE GateInv(q)'
    BY <1>v DEF Gates
  <2>1. q \in Roles /\ GateInv(q)
    BY <1>inv, <1>r DEF Gates
  <2> DEFINE d == scenario[q].dep
  <2>2. d # NoRole => d \in Roles
    BY <1>l, <1>r
  <2>3. stage[q] = "running" \/ log'[q] # <<>> => d = NoRole \/ ready'[d]
    <3>1. stage[q] = "running" \/ log'[q] # <<>> => stage[q] = "running" \/ log[q] # <<>>
      BY <1>s, <1>d, <2>1
    <3> QED
      BY <3>1, <2>1, <2>2, <1>y DEF GateInv
  <2>4. stage[q] \in Past /\ verdict[q].why = "fastfail" => done[d] /\ ~ready'[d]
    <3> SUFFICES ASSUME stage[q] \in Past, verdict[q].why = "fastfail" PROVE done[d] /\ ~ready'[d]
      OBVIOUS
    <3>1. done[d] /\ ~ready[d] /\ d \in Roles
      BY <2>1, <2>2 DEF GateInv
    <3>2. d # r
      BY <3>1, <1>f
    <3> QED
      BY <3>1, <3>2, <1>x
  <2> HIDE DEF d
  <2> QED
    BY <2>1, <2>3, <2>4, <1>v DEF GateInv, d
<1>8. Emitted'
  BY <1>v, Same
<1>9. Stops'
  BY <1>v, Same
<1>10. Errors'
  <2> SUFFICES ASSUME NEW e \in orchErrs PROVE ErrorInv(e)'
    BY <1>v DEF Errors
  <2>1. ErrorInv(e) /\ e.role \in Roles /\ e.dep \in Roles
    BY <1>inv DEF Errors, InstancesType
  <2>2. e.why = "fastfail" => done[e.dep] /\ ~ready'[e.dep]
    <3>1. e.why = "fastfail" => done[e.dep] /\ ~ready[e.dep]
      BY <2>1 DEF ErrorInv
    <3> QED
      BY <3>1, <2>1, <1>x, <1>f
  <2> QED
    BY <2>1, <2>2, <1>v DEF ErrorInv
<1> QED
  BY <1>1, <1>2, <1>3, <1>4, <1>5, <1>6, <1>7, <1>8, <1>9, <1>10 DEF ScenarioInv, ScenarioTypes

\* The result of an instance is recorded, with the error that quotes its dependency.
LEMMA RecordKeeps ==
  ASSUME ScenarioInv, NEW r \in DOMAIN scenario, Record(r)
  PROVE  ScenarioInv'
<1>inv. ScenarioTypes /\ CommandType /\ InstancesType /\ LinesType /\ ReadersType /\ LoadedInv
        /\ Signals /\ Gates /\ Emitted /\ Stops /\ Errors
  BY DEF ScenarioInv, ScenarioTypes
<1>r. r \in Roles /\ DOMAIN scenario \subseteq Roles
  BY <1>inv, ScenarioIs
<1> DEFINE d == scenario[r].dep
<1> DEFINE new == [role |-> r, dep |-> d, why |-> verdict[r].why, found |-> results[d],
                   heard |-> LastReceivedFrom(r, d)]
<1>d. /\ stage[r] = "stopping" /\ reader[r] # "on"
      /\ results' = [results EXCEPT ![r] = verdict[r]]
      /\ orchErrs' = IF verdict[r].why \in {"fastfail", "timeout"} THEN orchErrs \union {new} ELSE orchErrs
      /\ stage' = [stage EXCEPT ![r] = "recorded"]
  BY DEF Record
<1>v. UNCHANGED <<scenario, ipc, command, cancelled, exitCode, log, ready, done, verdict, bus,
                  reader, offset, ipcEvents, skipped>>
  BY DEF Record, busVars
<1>s. stage'[r] = "recorded" /\ \A q \in Roles : q # r => stage'[q] = stage[q]
  BY <1>r, <1>d, <1>inv DEF InstancesType
<1>w. results'[r] = verdict[r] /\ \A q \in Roles : q # r => results'[q] = results[q]
  BY <1>r, <1>d, <1>inv DEF InstancesType
<1>g. stage[r] # "idle"
  BY <1>d
<1>l. /\ Loads(scenario)
      /\ \A q \in DOMAIN scenario :
            scenario[q].dep # NoRole => scenario[q].dep \in DOMAIN scenario /\ scenario[q].dep # q
  BY <1>inv, <1>r, <1>g, BegunIsLoaded
<1>k. /\ GateInv(r) /\ EmittedInv(r) /\ StoppedInv(r)
  BY <1>inv DEF Gates, Emitted, Stops
<1>n. /\ new.role = r /\ new.dep = d /\ new.why = verdict[r].why /\ new.found = results[d]
      /\ new.heard = LastReceivedFrom(r, d)
  OBVIOUS
<1> HIDE DEF new
<1>e. verdict[r].why \in {"fastfail", "timeout"} => d # NoRole /\ d \in DOMAIN scenario /\ d \in Roles /\ d # r
  BY <1>d, <1>k, <1>l, <1>r DEF GateInv, Past
<1>f. verdict[r].why = "fastfail" => done[d] /\ ~ready[d]
  BY <1>d, <1>k DEF GateInv, Past
<1>h. verdict[r].why = "fastfail" /\ reader[r] = "stopped" /\ ~cancelled /\ skipped[r] = {} =>
        \A i \in DOMAIN bus : bus[i].from = d /\ bus[i].to = r => i <= LastReceivedFrom(r, d)
  <2> SUFFICES ASSUME verdict[r].why = "fastfail", reader[r] = "stopped", ~cancelled, skipped[r] = {},
                      NEW i \in DOMAIN bus, bus[i].from = d, bus[i].to = r
               PROVE  i <= LastReceivedFrom(r, d)
    OBVIOUS
  <2> DEFINE n == MaxMessages
  <2> DEFINE s == ipcEvents[r]
  <2> DEFINE heard == {k \in DOMAIN s : bus[s[k]].from = d}
  <2> DEFINE c == Cardinality(Passed(r))
  <2>1. i <= offset[r] /\ i \in 1..Len(bus) /\ Len(bus) \in Nat /\ Len(bus) <= n /\ n \in Nat
    BY <1>k, <1>inv, ScenarioAssumption, LenProperties DEF StoppedInv, LinesType
  <2>2. offset[r] \in 0..n
    BY <1>inv, <1>r DEF ReadersType
  <2>3. i \in Passed(r)
    BY <2>1, <2>2 DEF Passed, Visible
  <2>4. Passed(r) \in SUBSET (1..n)
    BY <2>1, <2>2 DEF Passed
  <2>5. s = InOrder(Passed(r))
    BY <1>k DEF EmittedInv
  <2>6. /\ s \in [1..c -> Passed(r)] /\ c \in Nat /\ Ascending(s) /\ Range(s) = Passed(r)
    BY <2>1, <2>4, <2>5, InOrderIs
  <2> HIDE DEF n, s, c
  <2>7. PICK k \in 1..c : s[k] = i
    BY <2>3, <2>6 DEF Range
  <2>8. k \in heard /\ heard \in SUBSET (1..c)
    BY <2>6, <2>7
  <2> HIDE DEF heard
  <2>9. Max(heard) \in heard /\ k <= Max(heard)
    <3>1. heard # {}
      BY <2>8
    <3> QED
      BY <2>6, <2>8, <3>1, MaxIsLast
  <2>10. Max(heard) \in 1..c /\ s[Max(heard)] \in 1..n
    BY <2>4, <2>6, <2>8, <2>9
  <2>11. i <= s[Max(heard)]
    <3>1. CASE k = Max(heard)
      BY <3>1, <2>7, <2>10
    <3>2. CASE k # Max(heard)
      <4>1. k < Max(heard)
        BY <3>2, <2>9, <2>10
      <4> QED
        BY <4>1, <2>1, <2>6, <2>7, <2>10 DEF Ascending
    <3> QED
      BY <3>1, <3>2
  <2>12. LastReceivedFrom(r, d) = s[Max(heard)]
    BY <2>8 DEF LastReceivedFrom, heard, s
  <2> QED
    BY <2>11, <2>12
<1> HIDE DEF d
<1>1. CommandType'
  BY <1>inv, <1>v DEF CommandType
<1>2. InstancesType'
  <2>1. stage' \in [Roles -> InstanceStages]
    BY <1>inv, <1>r, <1>d DEF InstancesType, InstanceStages
  <2>2. results' \in [Roles -> Outcomes]
    BY <1>inv, <1>r, <1>d DEF InstancesType
  <2>3. \A e \in orchErrs' : e \in orchErrs \/ (e = new /\ verdict[r].why \in {"fastfail", "timeout"})
    <3>1. CASE verdict[r].why \in {"fastfail", "timeout"}
      <4>1. orchErrs' = orchErrs \union {new}
        BY <3>1, <1>d
      <4> QED
        BY <3>1, <4>1
    <3>2. CASE verdict[r].why \notin {"fastfail", "timeout"}
      <4>1. orchErrs' = orchErrs
        BY <3>2, <1>d
      <4> QED
        BY <4>1
    <3> QED
      BY <3>1, <3>2
  <2>4. \A e \in orchErrs' : e.role \in Roles /\ e.dep \in Roles
    BY <2>3, <1>n, <1>e, <1>r, <1>inv DEF InstancesType
  <2> QED
    BY <2>1, <2>2, <2>4, <1>inv, <1>v DEF InstancesType
<1>3. LinesType'
  BY <1>v, Same
<1>4. ReadersType'
  BY <1>v, Same
<1>5. LoadedInv'
  BY <1>inv, <1>r, <1>g, <1>v DEF LoadedInv, CommandType
<1>6. Signals'
  <2> SUFFICES ASSUME NEW q \in DOMAIN scenario PROVE SignalInv(q)'
    BY <1>v DEF Signals
  <2>1. q \in Roles /\ SignalInv(q)
    BY <1>inv, <1>r DEF Signals
  <2>2. CASE q = r
    BY <2>1, <2>2, <1>v, <1>s, <1>d DEF SignalInv
  <2>3. CASE q # r
    BY <2>1, <2>3, <1>v, <1>s DEF SignalInv
  <2> QED
    BY <2>2, <2>3
<1>7. Gates'
  <2> SUFFICES ASSUME NEW q \in DOMAIN scenario PROVE GateInv(q)'
    BY <1>v DEF Gates
  <2>1. q \in Roles /\ GateInv(q)
    BY <1>inv, <1>r DEF Gates
  <2>2. CASE q = r
    BY <2>1, <2>2, <1>v, <1>s, <1>d DEF GateInv, Past
  <2>3. CASE q # r
    BY <2>1, <2>3, <1>v, <1>s DEF GateInv
  <2> QED
    BY <2>2, <2>3
<1>8. Emitted'
  BY <1>v, Same
<1>9. Stops'
  <2> SUFFICES ASSUME NEW q \in DOMAIN scenario PROVE StoppedInv(q)'
    BY <1>v DEF Stops
  <2>1. q \in Roles /\ StoppedInv(q)
    BY <1>inv, <1>r DEF Stops
  <2>2. CASE q = r
    BY <2>1, <2>2, <1>v, <1>s, <1>d DEF StoppedInv, Past
  <2>3. CASE q # r
    BY <2>1, <2>3, <1>v, <1>s DEF StoppedInv
  <2> QED
    BY <2>2, <2>3
<1>10. Errors'
  <2> SUFFICES ASSUME NEW e \in orchErrs' PROVE ErrorInv(e)'
    BY <1>v DEF Errors
  <2>1. CASE e \in orchErrs
    <3>1. ErrorInv(e) /\ e.role \in Roles /\ e.dep \in Roles
      BY <1>inv, <2>1 DEF Errors, InstancesType
    <3>2. e.role # r
      BY <3>1, <1>d DEF ErrorInv
    <3>3. e.why = "fastfail" => e.dep # r
      <4>1. SignalInv(r)
        BY <1>inv DEF Signals
      <4> QED
        BY <3>1, <4>1, <1>d DEF ErrorInv, SignalInv
    <3> QED
      BY <3>1, <3>2, <3>3, <1>s, <1>w, <1>v DEF ErrorInv
  <2>2. CASE e \notin orchErrs
    <3>1. e = new /\ verdict[r].why \in {"fastfail", "timeout"}
      BY <2>2, <1>d
    <3>2. e.role = r /\ e.dep = d /\ e.why = verdict[r].why /\ e.found = results[d]
          /\ e.heard = LastReceivedFrom(r, d)
      BY <3>1, <1>n
    <3>3. results'[d] = results[d] /\ d \in DOMAIN scenario
      BY <3>1, <1>e, <1>w
    <3>4. stage'[r] = "recorded"
      BY <1>s
    <3> QED
      BY <3>1, <3>2, <3>3, <3>4, <1>v, <1>f, <1>h DEF ErrorInv, d
  <2> QED
    BY <2>1, <2>2
<1> QED
  BY <1>1, <1>2, <1>3, <1>4, <1>5, <1>6, <1>7, <1>8, <1>9, <1>10 DEF ScenarioInv, ScenarioTypes

\* An instance that has ended closes its other channel.
LEMMA CloseKeeps ==
  ASSUME ScenarioInv, NEW r \in DOMAIN scenario, CloseDone(r)
  PROVE  ScenarioInv'
<1>inv. ScenarioTypes /\ CommandType /\ InstancesType /\ LinesType /\ ReadersType /\ LoadedInv
        /\ Signals /\ Gates /\ Emitted /\ Stops /\ Errors
  BY DEF ScenarioInv, ScenarioTypes
<1>r. r \in Roles /\ DOMAIN scenario \subseteq Roles
  BY <1>inv, ScenarioIs
<1>d. /\ stage[r] = "recorded"
      /\ done' = [done EXCEPT ![r] = TRUE]
      /\ stage' = [stage EXCEPT ![r] = "finished"]
  BY DEF CloseDone
<1>v. UNCHANGED <<scenario, ipc, command, cancelled, exitCode, log, ready, verdict, results,
                  orchErrs, bus, reader, offset, ipcEvents, skipped>>
  BY DEF CloseDone, busVars
<1>s. stage'[r] = "finished" /\ \A q \in Roles : q # r => stage'[q] = stage[q]
  BY <1>r, <1>d, <1>inv DEF InstancesType
<1>w. done'[r] = TRUE /\ \A q \in Roles : q # r => done'[q] = done[q]
  BY <1>r, <1>d, <1>inv DEF InstancesType
<1>y. \A q \in Roles : done[q] => done'[q]
  BY <1>w
<1>g. stage[r] # "idle"
  BY <1>d
<1>l. /\ Loads(scenario)
      /\ \A q \in DOMAIN scenario :
            scenario[q].dep # NoRole => scenario[q].dep \in DOMAIN scenario /\ scenario[q].dep # q
  BY <1>inv, <1>r, <1>g, BegunIsLoaded
<1>1. CommandType'
  BY <1>inv, <1>v DEF CommandType
<1>2. InstancesType'
  BY <1>inv, <1>r, <1>d, <1>v DEF InstancesType, InstanceStages
<1>3. LinesType'
  BY <1>v, Same
<1>4. ReadersType'
  BY <1>v, Same
<1>5. LoadedInv'
  BY <1>inv, <1>r, <1>g, <1>v DEF LoadedInv, CommandType
<1>6. Signals'
  <2> SUFFICES ASSUME NEW q \in DOMAIN scenario PROVE SignalInv(q)'
    BY <1>v DEF Signals
  <2>1. q \in Roles /\ SignalInv(q)
    BY <1>inv, <1>r DEF Signals
  <2>2. CASE q = r
    BY <2>1, <2>2, <1>v, <1>s, <1>w, <1>d DEF SignalInv
  <2>3. CASE q # r
    BY <2>1, <2>3, <1>v, <1>s, <1>w DEF SignalInv
  <2> QED
    BY <2>2, <2>3
<1>7. Gates'
  <2> SUFFICES ASSUME NEW q \in DOMAIN scenario PROVE GateInv(q)'
    BY <1>v DEF Gates
  <2>1. q \in Roles /\ GateInv(q)
    BY <1>inv, <1>r DEF Gates
  <2> DEFINE d == scenario[q].dep
  <2>2. d # NoRole => d \in Roles
    BY <1>l, <1>r
  <2>3. stage[q] \in Past /\ verdict[q].why = "fastfail" => done'[d] /\ ~ready[d]
    BY <2>1, <2>2, <1>y DEF GateInv
  <2>4. /\ stage'[q] = "waiting" <=> stage[q] = "waiting"
        /\ stage'[q] = "running" <=> stage[q] = "running"
        /\ stage'[q] \in Past <=> stage[q] \in Past
    BY <2>1, <1>s, <1>d DEF Past
  <2> HIDE DEF d
  <2> QED
    BY <2>1, <2>3, <2>4, <1>v DEF GateInv, d
<1>8. Emitted'
  BY <1>v, Same
<1>9. Stops'
  <2> SUFFICES ASSUME NEW q \in DOMAIN scenario PROVE StoppedInv(q)'
    BY <1>v DEF Stops
  <2>1. q \in Roles /\ StoppedInv(q)
    BY <1>inv, <1>r DEF Stops
  <2>2. CASE q = r
    BY <2>1, <2>2, <1>v, <1>s, <1>d DEF StoppedInv, Past
  <2>3. CASE q # r
    BY <2>1, <2>3, <1>v, <1>s DEF StoppedInv
  <2> QED
    BY <2>2, <2>3
<1>10. Errors'
  <2> SUFFICES ASSUME NEW e \in orchErrs PROVE ErrorInv(e)'
    BY <1>v DEF Errors
  <2>1. ErrorInv(e) /\ e.role \in Roles /\ e.dep \in Roles
    BY <1>inv DEF Errors, InstancesType
  <2>2. stage[e.role] \in {"recorded", "finished"} => stage'[e.role] \in {"recorded", "finished"}
    BY <2>1, <1>s
  <2>3. done[e.dep] => done'[e.dep]
    BY <2>1, <1>y
  <2> QED
    BY <2>1, <2>2, <2>3, <1>v DEF ErrorInv
<1> QED
  BY <1>1, <1>2, <1>3, <1>4, <1>5, <1>6, <1>7, <1>8, <1>9, <1>10 DEF ScenarioInv, ScenarioTypes

\* A line that an instance appends to the bus: it is behind what any reader has passed.
LEMMA SendKeeps ==
  ASSUME ScenarioInv, NEW r \in DOMAIN scenario, Send(r)
  PROVE  ScenarioInv'
<1>inv. ScenarioTypes /\ CommandType /\ InstancesType /\ LinesType /\ ReadersType /\ LoadedInv
        /\ Signals /\ Gates /\ Emitted /\ Stops /\ Errors
  BY DEF ScenarioInv, ScenarioTypes
<1>r. r \in Roles /\ DOMAIN scenario \subseteq Roles
  BY <1>inv, ScenarioIs
<1>b. bus \in [1..Len(bus) -> Line] /\ Len(bus) \in Nat /\ DOMAIN bus = 1..Len(bus)
  BY <1>inv, LenProperties DEF LinesType
<1>p. PICK to \in DOMAIN scenario, whole \in BOOLEAN :
        bus' = Append(bus, [from |-> r, to |-> to, whole |-> whole])
  BY DEF Send
<1> DEFINE line == [from |-> r, to |-> to, whole |-> whole]
<1>d. stage[r] = "running" /\ Len(bus) < MaxMessages
  BY DEF Send
<1>v. UNCHANGED <<scenario, ipc, command, cancelled, exitCode, stage, log, ready, done,
                  verdict, results, orchErrs, reader, offset, ipcEvents, skipped>>
  BY DEF Send, runVars
<1>n. line \in Line /\ line.from = r
  BY <1>r DEF Line
<1> HIDE DEF line
<1>a. bus \in Seq(Line) /\ bus' = Append(bus, line)
  BY <1>inv, <1>p DEF LinesType, line
<1>m. /\ bus' \in Seq(Line) /\ Len(bus') = Len(bus) + 1 /\ DOMAIN bus' = 1..(Len(bus) + 1)
      /\ \A i \in 1..Len(bus) : bus'[i] = bus[i]
      /\ bus'[Len(bus) + 1] = line
  BY <1>a, <1>n, AppendProperties, LenProperties
<1>o. \A i \in DOMAIN bus' : bus'[i].from # r => i \in DOMAIN bus /\ bus'[i] = bus[i]
  <2>1. \A i \in 1..(Len(bus) + 1) : i \in 1..Len(bus) \/ i = Len(bus) + 1
    BY <1>b
  <2> QED
    BY <2>1, <1>m, <1>n, <1>b
<1>g. stage[r] # "idle"
  BY <1>d
<1>l. /\ Loads(scenario)
      /\ \A q \in DOMAIN scenario :
            scenario[q].dep # NoRole => scenario[q].dep \in DOMAIN scenario /\ scenario[q].dep # q
  BY <1>inv, <1>r, <1>g, BegunIsLoaded
<1>f. ~done[r]
  BY <1>inv, <1>d DEF Signals, SignalInv
<1>1. CommandType'
  BY <1>inv, <1>v DEF CommandType
<1>2. InstancesType'
  BY <1>v, Same DEF runVars
<1>3. LinesType'
  BY <1>m, <1>d, <1>b, ScenarioAssumption DEF LinesType
<1>4. ReadersType'
  BY <1>v, Same
<1>5. LoadedInv'
  BY <1>v, Same
<1>6. Signals'
  BY <1>v, Same
<1>7. Gates'
  BY <1>v, Same
<1>8. Emitted'
  <2> SUFFICES ASSUME NEW q \in DOMAIN scenario PROVE EmittedInv(q)'
    BY <1>v DEF Emitted
  <2>1. q \in Roles /\ EmittedInv(q)
    BY <1>inv, <1>r DEF Emitted
  <2>2. offset[q] \in Nat /\ offset[q] <= Len(bus)
    BY <2>1, <1>inv, ScenarioAssumption DEF ReadersType, EmittedInv
  <2>3. \A i \in 1..offset[q] : i \in 1..Len(bus)
    BY <2>2, <1>b
  <2>4. \A i \in 1..offset[q] : Visible(q, bus'[i]) <=> Visible(q, bus[i])
    BY <2>3, <1>m DEF Visible
  <2>5. Passed(q)' = Passed(q)
    BY <2>4, <1>v DEF Passed
  <2>6. offset'[q] = offset[q] /\ offset[q] <= Len(bus')
    BY <2>2, <1>b, <1>m, <1>v
  <2> QED
    BY <2>1, <2>5, <2>6, <1>v DEF EmittedInv
<1>9. Stops'
  <2> SUFFICES ASSUME NEW q \in DOMAIN scenario PROVE StoppedInv(q)'
    BY <1>v DEF Stops
  <2>1. q \in Roles /\ StoppedInv(q) /\ GateInv(q)
    BY <1>inv, <1>r DEF Stops, Gates
  <2>2. stage[q] \in Past /\ verdict[q].why = "fastfail" => scenario[q].dep \in DOMAIN scenario /\ done[scenario[q].dep]
    BY <2>1, <1>l DEF GateInv
  <2>3. stage[q] \in Past => q # r
    BY <1>d DEF Past
  <2>4. stage[q] \in Past /\ verdict[q].why = "fastfail" => scenario[q].dep # r
    BY <2>2, <1>f
  <2>5. ASSUME reader[q] = "stopped", ~cancelled, NEW i \in DOMAIN bus', bus'[i].from = q
        PROVE  i <= offset[q]
    BY <2>1, <2>3, <2>5, <1>o DEF StoppedInv
  <2>6. ASSUME reader[q] = "stopped", ~cancelled, verdict[q].why = "fastfail",
               NEW i \in DOMAIN bus', bus'[i].from = scenario[q].dep
        PROVE  i <= offset[q]
    BY <2>1, <2>4, <2>6, <1>o DEF StoppedInv
  <2> QED
    BY <2>1, <2>5, <2>6, <1>v DEF StoppedInv
<1>10. Errors'
  <2> SUFFICES ASSUME NEW e \in orchErrs PROVE ErrorInv(e)'
    BY <1>v DEF Errors
  <2>1. ErrorInv(e) /\ e.role \in Roles /\ e.dep \in Roles
    BY <1>inv DEF Errors, InstancesType
  <2>2. ASSUME e.why = "fastfail", reader[e.role] = "stopped", ~cancelled, skipped[e.role] = {},
               NEW i \in DOMAIN bus', bus'[i].from = e.dep, bus'[i].to = e.role
        PROVE  i <= e.heard
    <3>1. done[e.dep]
      BY <2>1, <2>2 DEF ErrorInv
    <3>2. e.dep # r
      BY <3>1, <1>f
    <3> QED
      BY <2>1, <2>2, <3>2, <1>o DEF ErrorInv
  <2> QED
    BY <2>1, <2>2, <1>v DEF ErrorInv
<1> QED
  BY <1>1, <1>2, <1>3, <1>4, <1>5, <1>6, <1>7, <1>8, <1>9, <1>10 DEF ScenarioInv, ScenarioTypes

\* The rest of a long line, which had its sender and receiver already.
LEMMA SendRestKeeps ==
  ASSUME ScenarioInv, NEW r \in DOMAIN scenario, SendRest(r)
  PROVE  ScenarioInv'
<1>inv. ScenarioTypes /\ CommandType /\ InstancesType /\ LinesType /\ ReadersType /\ LoadedInv
        /\ Signals /\ Gates /\ Emitted /\ Stops /\ Errors
  BY DEF ScenarioInv, ScenarioTypes
<1>r. r \in Roles /\ DOMAIN scenario \subseteq Roles
  BY <1>inv, ScenarioIs
<1>b. bus \in [1..Len(bus) -> Line] /\ Len(bus) \in Nat /\ DOMAIN bus = 1..Len(bus)
  BY <1>inv, LenProperties DEF LinesType
<1>d. /\ stage[r] = "running" /\ bus # <<>>
      /\ bus' = [bus EXCEPT ![Len(bus)].whole = TRUE]
  BY DEF SendRest
<1>v. UNCHANGED <<scenario, ipc, command, cancelled, exitCode, stage, log, ready, done,
                  verdict, results, orchErrs, reader, offset, ipcEvents, skipped>>
  BY DEF SendRest, runVars
<1>a. Len(bus) \in 1..Len(bus)
  BY <1>b, <1>d, <1>inv DEF LinesType
<1>c. bus' \in [1..Len(bus) -> Line]
  BY <1>a, <1>b, <1>d DEF Line
<1>m. /\ bus' \in Seq(Line) /\ Len(bus') = Len(bus) /\ DOMAIN bus' = DOMAIN bus
      /\ \A i \in 1..Len(bus) : bus'[i].from = bus[i].from /\ bus'[i].to = bus[i].to
  <2>1. \A i \in 1..Len(bus) : bus'[i].from = bus[i].from /\ bus'[i].to = bus[i].to
    BY <1>a, <1>b, <1>d DEF Line
  <2>2. bus' \in Seq(Line) /\ Len(bus') = Len(bus) /\ DOMAIN bus' = DOMAIN bus
    BY <1>b, <1>c
  <2> QED
    BY <2>1, <2>2
<1>o. \A i \in DOMAIN bus' : i \in DOMAIN bus /\ bus'[i].from = bus[i].from /\ bus'[i].to = bus[i].to
  BY <1>m, <1>b
<1>g. stage[r] # "idle"
  BY <1>d
<1>l. /\ Loads(scenario)
      /\ \A q \in DOMAIN scenario :
            scenario[q].dep # NoRole => scenario[q].dep \in DOMAIN scenario /\ scenario[q].dep # q
  BY <1>inv, <1>r, <1>g, BegunIsLoaded
<1>f. ~done[r]
  BY <1>inv, <1>d DEF Signals, SignalInv
<1>1. CommandType'
  BY <1>inv, <1>v DEF CommandType
<1>2. InstancesType'
  BY <1>v, Same DEF runVars
<1>3. LinesType'
  BY <1>m, <1>inv DEF LinesType
<1>4. ReadersType'
  BY <1>v, Same
<1>5. LoadedInv'
  BY <1>v, Same
<1>6. Signals'
  BY <1>v, Same
<1>7. Gates'
  BY <1>v, Same
<1>8. Emitted'
  <2> SUFFICES ASSUME NEW q \in DOMAIN scenario PROVE EmittedInv(q)'
    BY <1>v DEF Emitted
  <2>1. q \in Roles /\ EmittedInv(q)
    BY <1>inv, <1>r DEF Emitted
  <2>2. offset[q] \in Nat /\ offset[q] <= Len(bus)
    BY <2>1, <1>inv, ScenarioAssumption DEF ReadersType, EmittedInv
  <2>3. \A i \in 1..offset[q] : i \in 1..Len(bus)
    BY <2>2, <1>b
  <2>4. \A i \in 1..offset[q] : Visible(q, bus'[i]) <=> Visible(q, bus[i])
    BY <2>3, <1>m DEF Visible
  <2>5. Passed(q)' = Passed(q)
    BY <2>4, <1>v DEF Passed
  <2>6. offset'[q] = offset[q] /\ offset[q] <= Len(bus')
    BY <2>2, <1>b, <1>m, <1>v
  <2> QED
    BY <2>1, <2>5, <2>6, <1>v DEF EmittedInv
<1>9. Stops'
  <2> SUFFICES ASSUME NEW q \in DOMAIN scenario PROVE StoppedInv(q)'
    BY <1>v DEF Stops
  <2>1. q \in Roles /\ StoppedInv(q) /\ GateInv(q)
    BY <1>inv, <1>r DEF Stops, Gates
  <2>2. stage[q] \in Past /\ verdict[q].why = "fastfail" => scenario[q].dep \in DOMAIN scenario /\ done[scenario[q].dep]
    BY <2>1, <1>l DEF GateInv
  <2>3. stage[q] \in Past => q # r
    BY <1>d DEF Past
  <2>4. stage[q] \in Past /\ verdict[q].why = "fastfail" => scenario[q].dep # r
    BY <2>2, <1>f
  <2>5. ASSUME reader[q] = "stopped", ~cancelled, NEW i \in DOMAIN bus', bus'[i].from = q
        PROVE  i <= offset[q]
    BY <2>1, <2>3, <2>5, <1>o DEF StoppedInv
  <2>6. ASSUME reader[q] = "stopped", ~cancelled, verdict[q].why = "fastfail",
               NEW i \in DOMAIN bus', bus'[i].from = scenario[q].dep
        PROVE  i <= offset[q]
    BY <2>1, <2>4, <2>6, <1>o DEF StoppedInv
  <2> QED
    BY <2>1, <2>5, <2>6, <1>v DEF StoppedInv
<1>10. Errors'
  <2> SUFFICES ASSUME NEW e \in orchErrs PROVE ErrorInv(e)'
    BY <1>v DEF Errors
  <2>1. ErrorInv(e) /\ e.role \in Roles /\ e.dep \in Roles
    BY <1>inv DEF Errors, InstancesType
  <2>2. ASSUME e.why = "fastfail", reader[e.role] = "stopped", ~cancelled, skipped[e.role] = {},
               NEW i \in DOMAIN bus', bus'[i].from = e.dep, bus'[i].to = e.role
        PROVE  i <= e.heard
    <3>1. done[e.dep]
      BY <2>1, <2>2 DEF ErrorInv
    <3>2. e.dep # r
      BY <3>1, <1>f
    <3> QED
      BY <2>1, <2>2, <3>2, <1>o DEF ErrorInv
  <2> QED
    BY <2>1, <2>2, <1>v DEF ErrorInv
<1> QED
  BY <1>1, <1>2, <1>3, <1>4, <1>5, <1>6, <1>7, <1>8, <1>9, <1>10 DEF ScenarioInv, ScenarioTypes

\* A poll of the bus.
LEMMA PollKeeps ==
  ASSUME ScenarioInv, NEW r \in DOMAIN scenario, Poll(r)
  PROVE  ScenarioInv'
<1>inv. ScenarioTypes /\ CommandType /\ InstancesType /\ LinesType /\ ReadersType /\ LoadedInv
        /\ Signals /\ Gates /\ Emitted /\ Stops /\ Errors
  BY DEF ScenarioInv, ScenarioTypes
<1>r. r \in Roles /\ DOMAIN scenario \subseteq Roles
  BY <1>inv, ScenarioIs
<1>b. bus \in [1..Len(bus) -> Line] /\ Len(bus) \in Nat /\ DOMAIN bus = 1..Len(bus)
  BY <1>inv, LenProperties DEF LinesType
<1>d. reader[r] = "on" /\ ReadSince(r)
  BY DEF Poll
<1>v. UNCHANGED <<scenario, ipc, command, cancelled, exitCode, stage, log, ready, done,
                  verdict, results, orchErrs, bus, reader>>
  BY DEF Poll, runVars
<1>e. EmittedInv(r)
  BY <1>inv DEF Emitted
<1>z. /\ offset' = [offset EXCEPT ![r] = Len(bus)]
      /\ offset' \in [Roles -> 0..MaxMessages]
      /\ ipcEvents' \in [Roles -> Seq(1..MaxMessages)]
      /\ skipped' \in [Roles -> SUBSET (1..MaxMessages)]
      /\ \A q \in Roles : q # r => ipcEvents'[q] = ipcEvents[q] /\ skipped'[q] = skipped[q]
      /\ EmittedInv(r)'
      /\ skipped[r] \subseteq skipped'[r]
  BY <1>inv, <1>e, <1>d, <1>v, ReadSinceEmits
<1>o. offset'[r] = Len(bus) /\ \A q \in Roles : q # r => offset'[q] = offset[q]
  BY <1>z, <1>r, <1>inv DEF ReadersType
<1>1. CommandType'
  BY <1>inv, <1>v DEF CommandType
<1>2. InstancesType'
  BY <1>v, Same DEF runVars
<1>3. LinesType'
  BY <1>v, Same
<1>4. ReadersType'
  BY <1>inv, <1>r, <1>d, <1>z, <1>v DEF ReadersType
<1>5. LoadedInv'
  BY <1>v, Same
<1>6. Signals'
  BY <1>v, Same
<1>7. Gates'
  BY <1>v, Same
<1>8. Emitted'
  <2> SUFFICES ASSUME NEW q \in DOMAIN scenario PROVE EmittedInv(q)'
    BY <1>v DEF Emitted
  <2>1. q \in Roles /\ EmittedInv(q)
    BY <1>inv, <1>r DEF Emitted
  <2>2. CASE q = r
    BY <2>2, <1>z
  <2>3. CASE q # r
    <3>1. offset'[q] = offset[q] /\ ipcEvents'[q] = ipcEvents[q] /\ skipped'[q] = skipped[q] /\ bus' = bus
      BY <2>1, <2>3, <1>z, <1>o, <1>v
    <3>2. Passed(q)' = Passed(q)
      BY <3>1 DEF Passed
    <3> QED
      BY <2>1, <3>1, <3>2 DEF EmittedInv
  <2> QED
    BY <2>2, <2>3
<1>9. Stops'
  <2> SUFFICES ASSUME NEW q \in DOMAIN scenario PROVE StoppedInv(q)'
    BY <1>v DEF Stops
  <2>1. q \in Roles /\ StoppedInv(q)
    BY <1>inv, <1>r DEF Stops
  <2>2. CASE q = r
    BY <2>1, <2>2, <1>v, <1>d DEF StoppedInv
  <2>3. CASE q # r
    BY <2>1, <2>3, <1>v, <1>o DEF StoppedInv
  <2> QED
    BY <2>2, <2>3
<1>10. Errors'
  <2> SUFFICES ASSUME NEW e \in orchErrs PROVE ErrorInv(e)'
    BY <1>v DEF Errors
  <2>1. ErrorInv(e) /\ e.role \in Roles /\ e.dep \in Roles
    BY <1>inv DEF Errors, InstancesType
  <2>2. reader[e.role] = "stopped" => e.role # r
    BY <1>d
  <2>3. reader[e.role] = "stopped" => skipped'[e.role] = skipped[e.role]
    BY <2>1, <2>2, <1>z
  <2> QED
    BY <2>1, <2>3, <1>v DEF ErrorInv
<1> QED
  BY <1>1, <1>2, <1>3, <1>4, <1>5, <1>6, <1>7, <1>8, <1>9, <1>10 DEF ScenarioInv, ScenarioTypes

\* A reader stops: the last drain passes all that its owner has sent, and all that a
\* dependency whose end the owner has seen has sent.
LEMMA StopReaderKeeps ==
  ASSUME ScenarioInv, NEW r \in DOMAIN scenario, StopReader(r)
  PROVE  ScenarioInv'
<1>inv. ScenarioTypes /\ CommandType /\ InstancesType /\ LinesType /\ ReadersType /\ LoadedInv
        /\ Signals /\ Gates /\ Emitted /\ Stops /\ Errors
  BY DEF ScenarioInv, ScenarioTypes
<1>r. r \in Roles /\ DOMAIN scenario \subseteq Roles
  BY <1>inv, ScenarioIs
<1>b. bus \in [1..Len(bus) -> Line] /\ Len(bus) \in Nat /\ DOMAIN bus = 1..Len(bus)
  BY <1>inv, LenProperties DEF LinesType
<1>d. /\ reader[r] = "on" /\ ReadSince(r) /\ (stage[r] = "stopping" \/ cancelled)
      /\ reader' = [reader EXCEPT ![r] = "stopped"]
  BY DEF StopReader
<1>v. UNCHANGED <<scenario, ipc, command, cancelled, exitCode, stage, log, ready, done,
                  verdict, results, orchErrs, bus>>
  BY DEF StopReader, runVars
<1>w. reader'[r] = "stopped" /\ \A q \in Roles : q # r => reader'[q] = reader[q]
  BY <1>r, <1>d, <1>inv DEF ReadersType
<1>e. EmittedInv(r)
  BY <1>inv DEF Emitted
<1>z. /\ offset' = [offset EXCEPT ![r] = Len(bus)]
      /\ offset' \in [Roles -> 0..MaxMessages]
      /\ ipcEvents' \in [Roles -> Seq(1..MaxMessages)]
      /\ skipped' \in [Roles -> SUBSET (1..MaxMessages)]
      /\ \A q \in Roles : q # r => ipcEvents'[q] = ipcEvents[q] /\ skipped'[q] = skipped[q]
      /\ EmittedInv(r)'
      /\ skipped[r] \subseteq skipped'[r]
  BY <1>inv, <1>e, <1>d, <1>v, ReadSinceEmits
<1>o. offset'[r] = Len(bus) /\ \A q \in Roles : q # r => offset'[q] = offset[q]
  BY <1>z, <1>r, <1>inv DEF ReadersType
<1>1. CommandType'
  BY <1>inv, <1>v DEF CommandType
<1>2. InstancesType'
  BY <1>v, Same DEF runVars
<1>3. LinesType'
  BY <1>v, Same
<1>4. ReadersType'
  BY <1>inv, <1>r, <1>d, <1>z, <1>v DEF ReadersType
<1>5. LoadedInv'
  BY <1>v, Same
<1>6. Signals'
  BY <1>v, Same
<1>7. Gates'
  BY <1>v, Same
<1>8. Emitted'
  <2> SUFFICES ASSUME NEW q \in DOMAIN scenario PROVE EmittedInv(q)'
    BY <1>v DEF Emitted
  <2>1. q \in Roles /\ EmittedInv(q)
    BY <1>inv, <1>r DEF Emitted
  <2>2. CASE q = r
    BY <2>2, <1>z
  <2>3. CASE q # r
    <3>1. offset'[q] = offset[q] /\ ipcEvents'[q] = ipcEvents[q] /\ skipped'[q] = skipped[q] /\ bus' = bus
      BY <2>1, <2>3, <1>z, <1>o, <1>v
    <3>2. Passed(q)' = Passed(q)
      BY <3>1 DEF Passed
    <3> QED
      BY <2>1, <3>1, <3>2 DEF EmittedInv
  <2> QED
    BY <2>2, <2>3
<1>9. Stops'
  <2> SUFFICES ASSUME NEW q \in DOMAIN scenario PROVE StoppedInv(q)'
    BY <1>v DEF Stops
  <2>1. q \in Roles /\ StoppedInv(q)
    BY <1>inv, <1>r DEF Stops
  <2>2. CASE q = r
    <3>1. \A i \in DOMAIN bus : i <= offset'[r]
      BY <1>o, <1>b
    <3>2. stage[r] # "idle"
      BY <2>1, <2>2, <1>d DEF StoppedInv
    <3> QED
      BY <2>1, <2>2, <3>1, <3>2, <1>v, <1>w, <1>d DEF StoppedInv, Past
  <2>3. CASE q # r
    BY <2>1, <2>3, <1>v, <1>o, <1>w DEF StoppedInv
  <2> QED
    BY <2>2, <2>3
<1>10. Errors'
  <2> SUFFICES ASSUME NEW e \in orchErrs PROVE ErrorInv(e)'
    BY <1>v DEF Errors
  <2>1. ErrorInv(e) /\ e.role \in Roles /\ e.dep \in Roles
    BY <1>inv DEF Errors, InstancesType
  <2>2. StoppedInv(r)
    BY <1>inv DEF Stops
  <2>3. e.role # r
    BY <2>1, <2>2, <1>d DEF StoppedInv, ErrorInv
  <2>4. reader'[e.role] = reader[e.role] /\ skipped'[e.role] = skipped[e.role]
    BY <2>1, <2>3, <1>w, <1>z
  <2> QED
    BY <2>1, <2>4, <1>v DEF ErrorInv
<1> QED
  BY <1>1, <1>2, <1>3, <1>4, <1>5, <1>6, <1>7, <1>8, <1>9, <1>10 DEF ScenarioInv, ScenarioTypes

\* What a run may return is an outcome of a run.
LEMMA ReturnedIs ==
  ASSUME NEW r \in Roles, NEW outcome \in Returned(r)
  PROVE  outcome \in Outcomes /\ outcome.why = "run"
<1>1. \E c \in Codes \union {0, 7}, err \in BOOLEAN : outcome = Outcome(c, err, "run")
  <2> DEFINE written == log[r]
  <2>1. outcome \in OutcomesAfter(written)
    BY DEF Returned
  <2> HIDE DEF written
  <2> QED
    BY <2>1 DEF OutcomesAfter
<1>2. PICK c \in Codes \union {0, 7}, err \in BOOLEAN : outcome = Outcome(c, err, "run")
  BY <1>1
<1> QED
  BY <1>2 DEF Outcome, Outcomes

\* Every step of a scenario keeps the invariant.
LEMMA ScenarioStep ==
  ASSUME ScenarioInv, [ScenarioNext]_scenarioVars
  PROVE  ScenarioInv'
<1>1. CASE Load
  BY <1>1, LoadKeeps
<1>2. CASE Cancel
  BY <1>2, CancelKeeps
<1>3. CASE ReportScenario
  BY <1>3, ReportKeeps
<1>4. ASSUME NEW r \in DOMAIN scenario,
             \/ Start(r) \/ SeesReady(r) \/ SeesDone(r) \/ SeesTimeout(r) \/ SeesCancel(r)
             \/ Write(r) \/ Return(r) \/ Record(r) \/ CloseDone(r)
             \/ Send(r) \/ SendRest(r) \/ Poll(r) \/ StopReader(r)
      PROVE  ScenarioInv'
  <2>r. r \in Roles
    BY ScenarioIs DEF ScenarioInv, ScenarioTypes
  <2>o. /\ Outcome(4, FALSE, "fastfail") \in Outcomes /\ Outcome(4, FALSE, "fastfail").why = "fastfail"
        /\ Outcome(4, FALSE, "timeout") \in Outcomes /\ Outcome(4, FALSE, "timeout").why = "timeout"
        /\ Outcome(0, TRUE, "cancelled") \in Outcomes /\ Outcome(0, TRUE, "cancelled").why = "cancelled"
    BY DEF Outcome, Outcomes
  <2>1. CASE Start(r)
    BY <2>1, StartKeeps
  <2>2. CASE SeesReady(r)
    <3>1. stage[r] = "waiting" /\ ready[scenario[r].dep] /\ RunInstance(r)
      BY <2>2 DEF SeesReady
    <3> QED
      BY <3>1, RunKeeps
  <2>3. CASE SeesDone(r)
    <3>1. CASE ready[scenario[r].dep]
      <4>1. stage[r] = "waiting" /\ RunInstance(r)
        BY <2>3, <3>1 DEF SeesDone
      <4> QED
        BY <3>1, <4>1, RunKeeps
    <3>2. CASE ~ready[scenario[r].dep]
      <4>1. stage[r] = "waiting" /\ done[scenario[r].dep] /\ Stop(r, Outcome(4, FALSE, "fastfail"))
        BY <2>3, <3>2 DEF SeesDone
      <4> QED
        BY <2>o, <3>2, <4>1, StopKeeps
    <3> QED
      BY <3>1, <3>2
  <2>4. CASE SeesTimeout(r)
    <3>1. stage[r] = "waiting" /\ Stop(r, Outcome(4, FALSE, "timeout"))
      BY <2>4 DEF SeesTimeout
    <3> QED
      BY <2>o, <3>1, StopKeeps
  <2>5. CASE SeesCancel(r)
    <3>1. stage[r] = "waiting" /\ Stop(r, Outcome(0, TRUE, "cancelled"))
      BY <2>5 DEF SeesCancel
    <3> QED
      BY <2>o, <3>1, StopKeeps
  <2>6. CASE Write(r)
    BY <2>6, WriteKeeps
  <2>7. CASE Return(r)
    <3>1. stage[r] = "running"
      BY <2>7 DEF Return
    <3>2. PICK outcome \in Returned(r) : Stop(r, outcome)
      BY <2>7 DEF Return
    <3>3. outcome \in Outcomes /\ outcome.why = "run"
      BY <2>r, ReturnedIs
    <3> QED
      BY <3>1, <3>2, <3>3, StopKeeps
  <2>8. CASE Record(r)
    BY <2>8, RecordKeeps
  <2>9. CASE CloseDone(r)
    BY <2>9, CloseKeeps
  <2>10. CASE Send(r)
    BY <2>10, SendKeeps
  <2>11. CASE SendRest(r)
    BY <2>11, SendRestKeeps
  <2>12. CASE Poll(r)
    BY <2>12, PollKeeps
  <2>13. CASE StopReader(r)
    BY <2>13, StopReaderKeeps
  <2> QED
    BY <1>4, <2>1, <2>2, <2>3, <2>4, <2>5, <2>6, <2>7, <2>8, <2>9, <2>10, <2>11, <2>12, <2>13
<1>5. CASE UNCHANGED scenarioVars
  <2>1. /\ UNCHANGED runVars
        /\ UNCHANGED <<scenario, ipc, command, cancelled, exitCode, stage, log, ready, done,
                       verdict,
                       results, orchErrs, bus, reader, offset, ipcEvents, skipped>>
    BY <1>5 DEF scenarioVars, runVars, busVars
  <2>2. CommandType'
    BY <2>1 DEF ScenarioInv, ScenarioTypes, CommandType
  <2> QED
    BY <2>1, <2>2, Same DEF ScenarioInv, ScenarioTypes
<1> QED
  BY <1>1, <1>2, <1>3, <1>4, <1>5 DEF ScenarioNext

\* What the invariant says of the gate is what GateIsTrue says of it.
LEMMA GateFollows ==
  ASSUME ScenarioInv
  PROVE  GateIsTrue
<1>1. /\ ScenarioTypes /\ CommandType /\ InstancesType /\ LoadedInv /\ Signals /\ Gates /\ Errors
      /\ DOMAIN scenario \subseteq Roles
  BY ScenarioIs DEF ScenarioInv, ScenarioTypes
<1>2. scenario \in Files
  BY <1>1 DEF CommandType
<1>3. ASSUME NEW r \in DOMAIN scenario, scenario[r].dep # NoRole, stage[r] # "idle"
      PROVE  /\ scenario[r].dep \in DOMAIN scenario
             /\ (ready[scenario[r].dep] <=>
                   DependencyPhase(scenario, r) \in Range(log[scenario[r].dep]))
  <2>1. Loads(scenario)
    BY <1>1, <1>3, BegunIsLoaded
  <2>2. /\ scenario[r].dep \in DOMAIN scenario
        /\ SignalPhase(scenario, scenario[r].dep) = DependencyPhase(scenario, r)
    BY <2>1, <1>2, <1>3, SignalIsAsked
  <2>3. SignalInv(scenario[r].dep)
    BY <1>1, <2>2 DEF Signals
  <2> QED
    BY <2>2, <2>3 DEF SignalInv
<1>4. GateRespected
  <2> SUFFICES ASSUME NEW r \in DOMAIN scenario, scenario[r].dep # NoRole, log[r] # <<>>
               PROVE  DependencyPhase(scenario, r) \in Range(log[scenario[r].dep])
    BY DEF GateRespected
  <2>1. SignalInv(r) /\ GateInv(r)
    BY <1>1 DEF Signals, Gates
  <2>2. stage[r] # "idle"
    BY <2>1 DEF SignalInv
  <2>3. ready[scenario[r].dep]
    BY <2>1 DEF GateInv
  <2> QED
    BY <1>3, <2>2, <2>3
<1>5. FastFailIsTrue
  <2> SUFFICES ASSUME NEW e \in orchErrs, e.why = "fastfail"
               PROVE  /\ DependencyPhase(scenario, e.role) \notin Range(log[e.dep])
                      /\ results[e.dep] = e.found /\ done[e.dep]
                      /\ reader[e.role] = "stopped" /\ ~cancelled /\ skipped[e.role] = {} =>
                            \A i \in DOMAIN bus : bus[i].from = e.dep /\ bus[i].to = e.role
                                                  => i <= e.heard
    BY DEF FastFailIsTrue
  <2>1. ErrorInv(e)
    BY <1>1 DEF Errors
  <2>2. e.role \in DOMAIN scenario /\ e.dep = scenario[e.role].dep /\ e.dep \in DOMAIN scenario
        /\ stage[e.role] # "idle" /\ ~ready[e.dep]
    BY <2>1 DEF ErrorInv
  <2>3. e.dep # NoRole
    BY <1>1, <2>2, ScenarioAssumption
  <2>4. DependencyPhase(scenario, e.role) \notin Range(log[e.dep])
    BY <1>3, <2>2, <2>3
  <2> QED
    BY <2>1, <2>4 DEF ErrorInv
<1> QED
  BY <1>4, <1>5 DEF GateIsTrue

\* What the invariant says of the readers is what EventsComplete says of them.
LEMMA EventsFollow ==
  ASSUME ScenarioInv
  PROVE  EventsComplete
<1>1. ScenarioTypes /\ LinesType /\ ReadersType /\ Emitted /\ Stops /\ DOMAIN scenario \subseteq Roles
  BY ScenarioIs DEF ScenarioInv, ScenarioTypes
<1> SUFFICES ASSUME NEW r \in DOMAIN scenario
             PROVE  /\ ipcEvents[r] = InOrder({i \in 1..offset[r] : Visible(r, bus[i])} \ skipped[r])
                    /\ stage[r] = "finished" /\ reader[r] = "stopped" /\ ~cancelled =>
                          \A i \in DOMAIN bus : bus[i].from = r =>
                              i \in Range(ipcEvents[r]) \union skipped[r]
  BY DEF EventsComplete
<1>2. EmittedInv(r) /\ StoppedInv(r)
  BY <1>1 DEF Emitted, Stops
<1>3. ipcEvents[r] = InOrder(Passed(r))
  BY <1>2 DEF EmittedInv
<1>4. offset[r] \in 0..MaxMessages /\ MaxMessages \in Nat /\ DOMAIN bus = 1..Len(bus) /\ Len(bus) \in Nat
  BY <1>1, ScenarioAssumption, LenProperties DEF ReadersType, LinesType
<1>5. Passed(r) \in SUBSET (1..MaxMessages)
  BY <1>4 DEF Passed
<1>6. Range(ipcEvents[r]) = Passed(r)
  BY <1>3, <1>4, <1>5, InOrderIs
<1>7. ASSUME reader[r] = "stopped", ~cancelled, NEW i \in DOMAIN bus, bus[i].from = r
      PROVE  i \in Range(ipcEvents[r]) \union skipped[r]
  <2>1. i <= offset[r]
    BY <1>2, <1>7 DEF StoppedInv
  <2>2. i \in 1..offset[r]
    BY <2>1, <1>4
  <2> QED
    BY <2>2, <1>6, <1>7 DEF Passed, Visible
<1> QED
  BY <1>3, <1>7 DEF Passed

\* The invariant of a scenario holds in every behaviour.
THEOREM ScenarioInvHolds == ScenarioSpec => []ScenarioInv
<1>1. ScenarioInit => ScenarioInv
  BY InitHolds
<1>2. ScenarioInv /\ [ScenarioNext]_scenarioVars => ScenarioInv'
  BY ScenarioStep
<1> QED
  BY <1>1, <1>2, PTL DEF ScenarioSpec

\* The variables of a scenario have their types; the report needs that a file that loads
\* names an instance, so that one of its codes is the most severe.
THEOREM ScenarioTypeCorrect == ScenarioSpec => []ScenarioTypeOK
<1>1. ScenarioInv => ScenarioTypeOK
  BY ScenarioTypeParts DEF ScenarioInv
<1> QED
  BY <1>1, ScenarioInvHolds, PTL

\* A dependent runs only after its dependency has written the phase it was told to wait
\* for, and one that gave up because its dependency ended did so for a reason
\* (runner.go, spec.go).
THEOREM GateHolds == ScenarioSpec => []GateIsTrue
<1>1. ScenarioInv => GateIsTrue
  BY GateFollows
<1> QED
  BY <1>1, ScenarioInvHolds, PTL

\* The events of an instance are the lines it sent or received, in the order of the bus
\* and none twice, except those met half-written; its own sends are all among them
\* (reader.go, runner.go).
THEOREM EventsHold == ScenarioSpec => []EventsComplete
<1>1. ScenarioInv => EventsComplete
  BY EventsFollow
<1> QED
  BY <1>1, ScenarioInvHolds, PTL

-----------------------------------------------------------------------------
(* The exit code of a scenario *)

\* An error of a run has no code of its own, or that of a denied permission.
ErrorKnown(outcome) == outcome.err => outcome.code \in {0, 7}
ErrorsKnown == \A r \in Roles : ErrorKnown(verdict[r]) /\ ErrorKnown(results[r])

\* The report comes when every instance has finished, and nothing changes it afterwards.
Reported ==
    command = "reported" => ExitIsWorst /\ \A r \in DOMAIN scenario : stage[r] = "finished"

ReportInv == ErrorsKnown /\ Reported

\* Only 0 is no worse than 0, and only 0 and 10 are no worse than 10.
LEMMA SeverityIs ==
  /\ ExitCodeSeverity(0) = 0 /\ ExitCodeSeverity(10) = 1
  /\ \A c \in Nat \ {0, 10} : ExitCodeSeverity(c) \in Nat /\ ExitCodeSeverity(c) > 1
<1>1. ExitCodeSeverity(0) = 0
  BY DEF ExitCodeSeverity
<1>2. ExitCodeSeverity(10) = 1
  BY DEF ExitCodeSeverity
<1>3. ASSUME NEW c \in Nat \ {0, 10}
      PROVE  ExitCodeSeverity(c) \in Nat /\ ExitCodeSeverity(c) > 1
  <2>1. CASE c \in 1..9
    <3>1. ExitCodeSeverity(c) = 10 + c
      BY <2>1 DEF ExitCodeSeverity
    <3> QED
      BY <2>1, <3>1
  <2>2. CASE c \notin 1..9
    <3>1. ExitCodeSeverity(c) = 100
      BY <2>2 DEF ExitCodeSeverity
    <3> QED
      BY <3>1
  <2> QED
    BY <2>1, <2>2
<1> QED
  BY <1>1, <1>2, <1>3

\* The most severe code is 0 only if every instance passed, and 10 only if nothing worse
\* happened.
LEMMA WorstIsReported ==
  ASSUME ScenarioInv, ErrorsKnown, ReportScenario
  PROVE  ExitIsWorst'
<1> DEFINE code(r) == EffectiveCode(results[r])
<1> DEFINE worst == AggregateExitCode
<1>1. exitCode' = worst /\ scenario' = scenario /\ results' = results /\ command = "started"
  BY DEF ReportScenario, runVars
<1>2. /\ worst \in Nat
      /\ \E r \in DOMAIN scenario : worst = code(r)
      /\ \A r \in DOMAIN scenario : code(r) \in Nat /\ ExitCodeSeverity(code(r)) <= ExitCodeSeverity(worst)
  BY <1>1, AggregateIs
<1>3. ASSUME NEW r \in DOMAIN scenario
      PROVE  /\ code(r) = 0 <=> results[r].code = 0 /\ ~results[r].err
             /\ code(r) \in {0, 10} => ~results[r].err /\ results[r].code \in {0, 10}
  <2>1. results[r].err => results[r].code \in {0, 7}
    BY ScenarioIs DEF ErrorsKnown, ErrorKnown, ScenarioInv, ScenarioTypes
  <2>2. results[r].err \in BOOLEAN
    BY ScenarioIs DEF ScenarioInv, ScenarioTypes, InstancesType, Outcomes
  <2> QED
    BY <2>1, <2>2 DEF EffectiveCode
<1> HIDE DEF code, worst
<1>4. worst = 0 <=> \A r \in DOMAIN scenario : code(r) = 0
  <2>1. ASSUME worst = 0, NEW r \in DOMAIN scenario PROVE code(r) = 0
    <3>1. code(r) \in Nat /\ ExitCodeSeverity(code(r)) <= 0
      BY <1>2, <2>1, SeverityIs
    <3> QED
      BY <3>1, SeverityIs
  <2> QED
    BY <1>2, <2>1
<1>5. worst = 10 => \A r \in DOMAIN scenario : code(r) \in {0, 10}
  <2> SUFFICES ASSUME worst = 10, NEW r \in DOMAIN scenario PROVE code(r) \in {0, 10}
    OBVIOUS
  <2>1. code(r) \in Nat /\ ExitCodeSeverity(code(r)) <= 1
    BY <1>2, SeverityIs
  <2> QED
    BY <2>1, SeverityIs
<1>6. /\ worst = 0 <=> \A r \in DOMAIN scenario : results[r].code = 0 /\ ~results[r].err
      /\ worst = 10 => \A r \in DOMAIN scenario : ~results[r].err /\ results[r].code \in {0, 10}
  BY <1>3, <1>4, <1>5
<1> QED
  BY <1>1, <1>6 DEF ExitIsWorst

\* An instance that gets its outcome gets one whose error is known.
LEMMA ErrorsStayKnown ==
  ASSUME ScenarioInv, ErrorsKnown, [ScenarioNext]_scenarioVars
  PROVE  ErrorsKnown'
<1>t. /\ DOMAIN scenario \subseteq Roles
      /\ verdict \in [Roles -> Outcomes] /\ results \in [Roles -> Outcomes]
  BY ScenarioIs DEF ScenarioInv, ScenarioTypes, InstancesType
<1>1. CASE UNCHANGED <<verdict, results>>
  BY <1>1 DEF ErrorsKnown, ErrorKnown
<1>2. ASSUME NEW r \in DOMAIN scenario, NEW outcome, ErrorKnown(outcome), Stop(r, outcome)
      PROVE  ErrorsKnown'
  <2>1. verdict' = [verdict EXCEPT ![r] = outcome] /\ results' = results
    BY <1>2 DEF Stop
  <2>2. ASSUME NEW q \in Roles PROVE ErrorKnown(verdict'[q]) /\ ErrorKnown(results'[q])
    <3>1. ErrorKnown(verdict[q]) /\ ErrorKnown(results[q])
      BY DEF ErrorsKnown
    <3>2. verdict'[q] = outcome \/ verdict'[q] = verdict[q]
      BY <1>t, <2>1
    <3> QED
      BY <1>2, <2>1, <3>1, <3>2
  <2> QED
    BY <2>2 DEF ErrorsKnown, ErrorKnown
<1>3. ASSUME NEW r \in DOMAIN scenario, Record(r)
      PROVE  ErrorsKnown'
  <2>1. results' = [results EXCEPT ![r] = verdict[r]] /\ verdict' = verdict
    BY <1>3 DEF Record
  <2>2. ASSUME NEW q \in Roles PROVE ErrorKnown(verdict'[q]) /\ ErrorKnown(results'[q])
    <3>1. ErrorKnown(verdict[q]) /\ ErrorKnown(results[q]) /\ ErrorKnown(verdict[r])
      BY <1>t DEF ErrorsKnown
    <3>2. results'[q] = verdict[r] \/ results'[q] = results[q]
      BY <1>t, <2>1
    <3> QED
      BY <2>1, <3>1, <3>2
  <2> QED
    BY <2>2 DEF ErrorsKnown, ErrorKnown
<1>4. ASSUME NEW r \in DOMAIN scenario, NEW outcome \in Returned(r) PROVE ErrorKnown(outcome)
  <2> DEFINE written == log[r]
  <2>1. outcome \in OutcomesAfter(written)
    BY <1>4 DEF Returned
  <2> HIDE DEF written
  <2>2. \E c \in Codes \union {0, 7}, err \in BOOLEAN :
           outcome = Outcome(c, err, "run") /\ (err => c \in {0, 7})
    BY <2>1 DEF OutcomesAfter
  <2> QED
    BY <2>2 DEF Outcome, ErrorKnown
<1>5. /\ ErrorKnown(Outcome(4, FALSE, "fastfail")) /\ ErrorKnown(Outcome(4, FALSE, "timeout"))
      /\ ErrorKnown(Outcome(0, TRUE, "cancelled"))
  BY DEF Outcome, ErrorKnown
<1>6. CASE Load \/ Cancel \/ ReportScenario \/ UNCHANGED scenarioVars
  BY <1>1, <1>6 DEF Load, Cancel, ReportScenario, scenarioVars, runVars
<1>7. ASSUME NEW r \in DOMAIN scenario,
             \/ Start(r) \/ SeesReady(r) \/ SeesDone(r) \/ SeesTimeout(r) \/ SeesCancel(r)
             \/ Write(r) \/ Return(r) \/ Record(r) \/ CloseDone(r)
             \/ Send(r) \/ SendRest(r) \/ Poll(r) \/ StopReader(r)
      PROVE  ErrorsKnown'
  <2>1. CASE Start(r) \/ Write(r) \/ CloseDone(r) \/ RunInstance(r)
    BY <1>1, <2>1 DEF Start, Write, CloseDone, RunInstance
  <2>2. CASE Send(r) \/ SendRest(r) \/ Poll(r) \/ StopReader(r)
    BY <1>1, <2>2 DEF Send, SendRest, Poll, StopReader, runVars
  <2>3. CASE Record(r)
    BY <1>3, <2>3
  <2>4. CASE \E outcome : ErrorKnown(outcome) /\ Stop(r, outcome)
    BY <1>2, <2>4
  <2>5. CASE SeesReady(r) \/ SeesDone(r)
    BY <1>5, <2>1, <2>4, <2>5 DEF SeesReady, SeesDone
  <2>6. CASE SeesTimeout(r) \/ SeesCancel(r)
    BY <1>5, <2>4, <2>6 DEF SeesTimeout, SeesCancel
  <2>7. CASE Return(r)
    BY <1>4, <2>4, <2>7 DEF Return
  <2> QED
    BY <1>7, <2>1, <2>2, <2>3, <2>5, <2>6, <2>7
<1> QED
  BY <1>6, <1>7 DEF ScenarioNext

\* What has been reported stays.
LEMMA ReportStays ==
  ASSUME ScenarioInv, ReportInv, [ScenarioNext]_scenarioVars
  PROVE  Reported'
<1>1. CASE ReportScenario
  <2>1. ExitIsWorst'
    BY <1>1, WorstIsReported DEF ReportInv
  <2>2. \A r \in DOMAIN scenario' : stage'[r] = "finished"
    BY <1>1 DEF ReportScenario, runVars
  <2> QED
    BY <2>1, <2>2 DEF Reported
<1>2. CASE command' # "reported"
  BY <1>2 DEF Reported
<1>3. CASE UNCHANGED <<scenario, stage, results, exitCode, command>>
  BY <1>3 DEF ReportInv, Reported, ExitIsWorst
<1>4. CASE Load \/ Cancel
  BY <1>2, <1>4 DEF Load, Cancel
<1>5. CASE UNCHANGED scenarioVars
  BY <1>3, <1>5 DEF scenarioVars, runVars
<1>6. ASSUME NEW r \in DOMAIN scenario,
             \/ Start(r) \/ SeesReady(r) \/ SeesDone(r) \/ SeesTimeout(r) \/ SeesCancel(r)
             \/ Write(r) \/ Return(r) \/ Record(r) \/ CloseDone(r)
             \/ Send(r) \/ SendRest(r) \/ Poll(r) \/ StopReader(r)
      PROVE  Reported'
  <2>1. CASE Poll(r) \/ StopReader(r) \/ Send(r) \/ SendRest(r)
    BY <1>3, <2>1 DEF Poll, StopReader, Send, SendRest, runVars
  <2>2. CASE Start(r) \/ SeesReady(r) \/ SeesDone(r) \/ SeesTimeout(r) \/ SeesCancel(r)
             \/ Write(r) \/ Return(r) \/ Record(r) \/ CloseDone(r)
    <3>1. stage[r] # "finished" /\ command' = command
      BY <2>2 DEF Start, SeesReady, SeesDone, SeesTimeout, SeesCancel, Write, Return, Record,
         CloseDone, Stop, RunInstance
    <3>2. command' # "reported"
      BY <3>1 DEF ReportInv, Reported
    <3> QED
      BY <1>2, <3>2
  <2> QED
    BY <1>6, <2>1, <2>2
<1> QED
  BY <1>1, <1>4, <1>5, <1>6 DEF ScenarioNext

\* The reported exit code is 0 only if every instance passed, and says that no test
\* matched only if nothing worse happened; a report stands (aggregateExitCode).
THEOREM WorstReported == ScenarioSpec => [](command = "reported" => ExitIsWorst)
<1>1. ScenarioInit => ReportInv
  BY DEF ScenarioInit, ReportInv, ErrorsKnown, ErrorKnown, Reported, NoOutcome
<1>2. ScenarioInv /\ ReportInv /\ [ScenarioNext]_scenarioVars => ReportInv'
  BY ErrorsStayKnown, ReportStays DEF ReportInv
<1>3. ReportInv => (command = "reported" => ExitIsWorst)
  BY DEF ReportInv, Reported
<1> QED
  BY <1>1, <1>2, <1>3, ScenarioInvHolds, PTL DEF ScenarioSpec

-----------------------------------------------------------------------------
(* The run service keeps what the scenario runner assumes of a run.  The     *)
(* instances of a scenario never use the warm bridge (DisableBridge).        *)

\* The stages in which the executor works.
Executing == {"launch", "unity", "classify"}

\* The phases that a run has written, as the scenario runner counts them: of the ways
\* to be cut short it knows one.
Told ==
    IF phase = "test" THEN <<"compiling", "compiling", "running">>
    ELSE <<"compiling", "compiling">>
LastTold == IF mgr = "done" THEN "done" ELSE "timeout_total"
Written ==
    IF mgr = "" THEN <<>>
    ELSE IF infra \/ pc \in Preparation \union {"exec"} THEN <<"compiling">>
    ELSE IF mgr \in Terminal THEN Append(Told, LastTold)
    ELSE Told

\* What has been written follows from where the run is.
Cold ==
    pc \notin {"bridge", "warm"}
WrittenEarly ==
    /\ pc = "start" => mgr = ""
    /\ mgr = "" => pc = "start" \/ infra
    /\ pc \in Preparation \union {"exec"} \/ infra => mgr \in {"", "compiling"} /\ phase = "single"
Saying == IF phase = "test" THEN "running" ELSE "compiling"
WrittenInUnity ==
    pc \in Executing => mgr = Saying
PhaseIsAsked ==
    phase \in {"compile", "test"} => req.twoPhase
\* The last phase and the code of the execution, which the later code keeps.
Ended(p, code) ==
    \/ code = 2 /\ p = Saying
    \/ code \in {0, 1, 2, 3, 6, 9, 10} /\ p = "done"
    \/ code \in {4, 8} /\ p \in Terminal \ {"done"}
WrittenAtEnd ==
    pc \in Results /\ ~infra => Ended(mgr, raw)
ErrorCodes ==
    infra => exit \in {1, 7} /\ (mgr = "" => exit = 1)

ContractInv ==
    req.bridge = "off" =>
        Cold /\ WrittenEarly /\ WrittenInUnity /\ PhaseIsAsked /\ WrittenAtEnd /\ ErrorCodes

\* What the steps of a cold run do to the phase said, the invocation and the codes.
Beside ==
    UNCHANGED <<pc, phase, mgr, raw, infra, exit>>
Begins ==
    pc = "start" /\ pc' = "cold" /\ mgr' = "compiling" /\ UNCHANGED <<phase, raw, infra, exit>>
Fails ==
    /\ pc \in Preparation /\ pc' = "report" /\ infra' = TRUE /\ UNCHANGED <<phase, mgr, raw>>
    /\ exit' \in {1, 7} /\ (pc = "start" => exit' = 1)
Prepares ==
    /\ pc \in Preparation \ {"start"}
    /\ pc' \in (Preparation \ {"start", "bridge", "warm"}) \union {"exec"}
    /\ UNCHANGED <<phase, mgr, raw, infra, exit>>
Executes ==
    /\ pc = "exec" /\ pc' = "launch" /\ mgr' = "compiling"
    /\ phase' = (IF req.twoPhase THEN "compile" ELSE "single")
    /\ UNCHANGED <<raw, infra, exit>>
Waits ==
    pc \in Executing /\ pc' \in Executing /\ UNCHANGED <<phase, mgr, raw, infra, exit>>
Compiles ==
    /\ pc = "unity" /\ phase = "compile" /\ pc' = "launch" /\ phase' = "test"
    /\ mgr' = "running" /\ UNCHANGED <<raw, infra, exit>>
Ends ==
    /\ pc \in Executing /\ pc' = "ended" /\ UNCHANGED <<phase, infra, exit>>
    /\ \/ mgr' = "done" /\ raw' \in {0, 1, 2, 3, 6, 9, 10}
       \/ mgr' \in Terminal \ {"done"} /\ raw' \in {4, 8}
       \/ mgr' = mgr /\ raw' = 2
Finishes ==
    /\ pc \in Results /\ pc' \in Results /\ UNCHANGED <<phase, mgr, raw, infra>>
    /\ infra => exit' = exit

\* Every step of a cold run is one of these.
LEMMA ColdSteps ==
  ASSUME TypeOK, CodesInv, ContractInv, Next, req.bridge = "off"
  PROVE  /\ req' = req
         /\ \/ Beside \/ Begins \/ Fails \/ Prepares \/ Executes \/ Waits \/ Compiles
            \/ Ends \/ Finishes
<1>r. req' = req
  BY Footprint
<1>c. Cold
  BY DEF ContractInv
<1>1. CASE Background
  <2>1. Beside
    BY <1>1 DEF Background, Publish, HeartbeatTick, HeartbeatWrite, Deadline, Signal,
       HandlerWrites, MonitorBeat, resultVars, statusVars, Beside
  <2> QED
    BY <1>r, <2>1
<1>2. CASE Begin
  <2>1. pc = "start" /\ phase' = phase
    BY <1>2 DEF Begin, At
  <2>2. CASE Fail(1) /\ UNCHANGED statusVars
    <3>1. Fails
      BY <2>1, <2>2 DEF Fail, Go, Fails, Preparation, Choosing, statusVars
    <3> QED
      BY <1>r, <3>1
  <2>3. CASE Say("compiling") /\ UNCHANGED resultVars /\ Go(IF BridgeEligible THEN "bridge" ELSE "cold")
    <3>1. ~BridgeEligible
      BY DEF BridgeEligible
    <3>2. pc' = "cold"
      BY <2>3, <3>1 DEF Go
    <3>3. Begins
      BY <2>1, <2>3, <3>2 DEF Say, Begins, resultVars
    <3> QED
      BY <1>r, <3>3
  <2> QED
    BY <1>2, <2>2, <2>3 DEF Begin
<1>3. CASE ProbeBridge \/ RunWarm
  BY <1>3, <1>c DEF ProbeBridge, RunWarm, At, Cold
<1>4. CASE ChooseBackend \/ HelloBroker \/ EnsureImage \/ PrepareShell \/ MaterializeImage
           \/ EnsureParent \/ AcquireChild
  <2>1. pc \in {"cold", "hello", "image", "shell", "library", "parent", "acquire"}
    BY <1>4 DEF ChooseBackend, HelloBroker, EnsureImage, PrepareShell, MaterializeImage,
       EnsureParent, AcquireChild, At
  <2>2. phase' = phase /\ mgr' = mgr
    BY <1>4 DEF ChooseBackend, HelloBroker, EnsureImage, PrepareShell, MaterializeImage,
       EnsureParent, AcquireChild, statusVars
  <2>3. CASE Fail(1) \/ Fail(7)
    <3>1. Fails
      BY <2>1, <2>2, <2>3 DEF Fail, Go, Fails, Preparation, Choosing
    <3> QED
      BY <1>r, <3>1
  <2>4. CASE ~Fail(1) /\ ~Fail(7)
    <3>1. UNCHANGED resultVars
      BY <1>4, <2>4 DEF ChooseBackend, HelloBroker, EnsureImage, PrepareShell,
         MaterializeImage, EnsureParent, AcquireChild
    <3>2. pc' \in {"exec", "hello", "image", "shell", "library", "parent", "acquire"}
      BY <1>4, <2>4 DEF ChooseBackend, HelloBroker, EnsureImage, PrepareShell,
         MaterializeImage, EnsureParent, AcquireChild, Go
    <3>3. Prepares
      BY <2>1, <2>2, <3>1, <3>2 DEF Prepares, Preparation, Choosing, resultVars
    <3> QED
      BY <1>r, <3>3
  <2> QED
    BY <2>3, <2>4
<1>5. CASE Execute
  <2>1. Executes
    BY <1>5 DEF Execute, At, Go, Say, resultVars, Executes
  <2> QED
    BY <1>r, <2>1
<1>6. CASE Launch
  <2>1. pc = "launch" /\ phase' = phase
    BY <1>6 DEF Launch, At
  <2>2. CASE pc' \in {"unity", "classify"} /\ UNCHANGED <<statusVars, resultVars>>
    <3>1. Waits
      BY <2>1, <2>2 DEF Executing, Waits, statusVars, resultVars
    <3> QED
      BY <1>r, <3>1
  <2>3. CASE EndExecution(1, "done")
    <3>1. Ends
      BY <2>1, <2>3 DEF EndExecution, Say, Go, Executing, Ends
    <3> QED
      BY <1>r, <3>1
  <2> QED
    BY <1>6, <2>2, <2>3 DEF Launch, Go
<1>7. CASE CompileEnds
  <2>1. pc = "unity" /\ phase = "compile"
    BY <1>7 DEF CompileEnds, WaitFails, At
  <2>2. CASE Say("running") /\ phase' = "test" /\ Go("launch") /\ UNCHANGED resultVars
    <3>1. Compiles
      BY <2>1, <2>2 DEF Say, Go, resultVars, Compiles
    <3> QED
      BY <1>r, <3>1
  <2>3. CASE phase' = phase /\ \E code \in {1, 2, 6} : EndExecution(code, "done")
    <3>1. Ends
      BY <2>1, <2>3 DEF EndExecution, Say, Go, Executing, Ends
    <3> QED
      BY <1>r, <3>1
  <2> QED
    BY <1>7, <2>2, <2>3 DEF CompileEnds, WaitFails
<1>8. CASE TestsEnd
  <2>1. pc = "unity" /\ phase' = phase
    BY <1>8 DEF TestsEnd, WaitFails, At
  <2>2. CASE raw' = 2 /\ Go("ended") /\ UNCHANGED <<statusVars, exit, infra>>
    <3>1. Ends
      BY <2>1, <2>2 DEF Go, Executing, Ends, statusVars
    <3> QED
      BY <1>r, <3>1
  <2>3. CASE \E code \in {0, 1, 2, 3, 6, 10} : EndExecution(code, "done")
    <3>1. Ends
      BY <2>1, <2>3 DEF EndExecution, Say, Go, Executing, Ends
    <3> QED
      BY <1>r, <3>1
  <2> QED
    BY <1>8, <2>2, <2>3, TestCodes DEF TestsEnd, WaitFails
<1>9. CASE StopUnity
  <2>1. Waits
    BY <1>9 DEF StopUnity, At, Go, Executing, Waits, statusVars, resultVars
  <2> QED
    BY <1>r, <2>1
<1>10. CASE Classify
  <2>1. pc = "classify" /\ phase' = phase
    BY <1>10 DEF Classify, At
  <2>2. cut \in {"live", "deadline", "signal", "unsafe"}
    BY TypeParts DEF ContextType
  <2>3. CASE cut = "live"
    <3>1. EndExecution(4, IF phase = "compile" THEN "timeout_compile" ELSE "timeout_test")
      BY <1>10, <2>3 DEF Classify
    <3>2. Ends
      BY <2>1, <3>1, TerminalPhases DEF EndExecution, Say, Go, Executing, Ends
    <3> QED
      BY <1>r, <3>2
  <2>4. CASE cut # "live"
    <3>1. EndExecution(ContextOutcome(cut)[1], ContextOutcome(cut)[2])
      BY <1>10, <2>4 DEF Classify
    <3>2. ContextOutcome(cut)[1] \in {4, 8} /\ ContextOutcome(cut)[2] \in {"timeout_total", "interrupted"}
      BY <2>2, <2>4, ContextOutcomes
    <3>3. raw' \in {4, 8} /\ mgr' \in {"timeout_total", "interrupted"} /\ pc' = "ended"
          /\ UNCHANGED <<exit, infra>>
      BY <3>1, <3>2 DEF EndExecution, Say, Go
    <3>4. Ends
      BY <2>1, <3>3, TerminalPhases DEF Executing, Ends
    <3> QED
      BY <1>r, <3>4
  <2> QED
    BY <2>3, <2>4
<1>11. CASE StopMonitor \/ WriteCacheBack \/ ReleaseWorkspace \/ RetryRelease \/ SaveResult
            \/ SaveSummary \/ SaveManifest \/ Report
  <2>1. pc \in Results
    BY <1>11 DEF StopMonitor, WriteCacheBack, ReleaseWorkspace, RetryRelease, SaveResult,
       SaveSummary, SaveManifest, Report, At, Results, Over
  <2>2. pc' \in Results
    BY <1>11, <2>1 DEF StopMonitor, WriteCacheBack, ReleaseWorkspace, ReleaseChild, RemoveShell,
       RetryRelease, SaveResult, SaveSummary, SaveManifest, Report, Go, Results, Over
  <2>3. UNCHANGED <<phase, mgr, raw, infra>>
    BY <1>11 DEF StopMonitor, WriteCacheBack, ReleaseWorkspace, ReleaseChild, RemoveShell,
       RetryRelease, SaveResult, SaveSummary, SaveManifest, Report, Warn, statusVars, resultVars
  <2>4. infra => exit' = exit
    <3>1. infra => pc \in {"report", "exited"}
      BY DEF CodesInv, ErrorsEarly
    <3> QED
      BY <1>11, <3>1 DEF StopMonitor, WriteCacheBack, ReleaseWorkspace, RetryRelease,
         SaveResult, SaveSummary, SaveManifest, Report, At, resultVars
  <2>5. Finishes
    BY <2>1, <2>2, <2>3, <2>4 DEF Finishes
  <2> QED
    BY <1>r, <2>5
<1> QED
  BY <1>1, <1>2, <1>3, <1>4, <1>5, <1>6, <1>7, <1>8, <1>9, <1>10, <1>11
    DEF Next, Main, Background

\* A cold run goes on keeping the contract.
LEMMA ContractStep ==
  ASSUME TypeOK, CodesInv, ContractInv, Next
  PROVE  ContractInv'
<1> SUFFICES ASSUME req.bridge = "off"
             PROVE  (Cold /\ WrittenEarly /\ WrittenInUnity /\ PhaseIsAsked /\ WrittenAtEnd
                     /\ ErrorCodes)'
  BY Footprint DEF ContractInv
<1>1. Cold /\ WrittenEarly /\ WrittenInUnity /\ PhaseIsAsked /\ WrittenAtEnd /\ ErrorCodes
  BY DEF ContractInv
<1>2. infra => pc \in {"report", "exited"}
  BY DEF CodesInv, ErrorsEarly
<1>3. /\ req' = req
      /\ \/ Beside \/ Begins \/ Fails \/ Prepares \/ Executes \/ Waits \/ Compiles
         \/ Ends \/ Finishes
  BY ColdSteps
<1> USE DEF Preparation, Choosing, Executing, Results, Over
<1>4. Cold'
  BY <1>1, <1>3 DEF Cold, Beside, Begins, Fails, Prepares, Executes, Waits, Compiles, Ends,
     Finishes
<1>5. WrittenEarly'
  <2>1. CASE Beside
    BY <1>1, <2>1 DEF WrittenEarly, Beside
  <2>7. CASE Finishes
    <3>1. pc \notin Preparation \union {"exec"} /\ pc' \notin Preparation \union {"exec"}
      BY <2>7 DEF Finishes
    <3>2. pc # "start" /\ pc' # "start" /\ mgr' = mgr /\ phase' = phase /\ infra' = infra
      BY <2>7 DEF Finishes
    <3> QED
      BY <1>1, <3>1, <3>2, Zenon DEF WrittenEarly
  <2>6. CASE Waits \/ Compiles \/ Ends
    <3>1. pc \in {"launch", "unity", "classify"} /\ ~infra
      BY <1>2, <2>6 DEF Waits, Compiles, Ends
    <3>2. pc' \in {"launch", "unity", "classify", "ended"} /\ ~infra'
      BY <2>6, <3>1 DEF Waits, Compiles, Ends
    <3>3. mgr # "" /\ mgr' # ""
      BY <1>1, <2>6, <3>1, TerminalPhases DEF WrittenInUnity, Saying, Waits, Compiles, Ends
    <3> QED
      BY <3>2, <3>3 DEF WrittenEarly
  <2>2. CASE Begins
    BY <1>1, <2>2 DEF WrittenEarly, Begins
  <2>3. CASE Fails
    BY <1>1, <2>3 DEF WrittenEarly, Fails
  <2>4. CASE Prepares
    BY <1>1, <2>4 DEF WrittenEarly, Prepares
  <2>5. CASE Executes
    BY <1>1, <1>2, <2>5 DEF WrittenEarly, Executes
  <2> QED
    BY <1>3, <2>1, <2>2, <2>3, <2>4, <2>5, <2>6, <2>7
<1>6. WrittenInUnity'
  BY <1>1, <1>2, <1>3 DEF WrittenInUnity, Saying, Beside, Begins, Fails, Prepares, Executes, Waits,
     Compiles, Ends, Finishes
<1>7. PhaseIsAsked'
  BY <1>1, <1>3 DEF PhaseIsAsked, Beside, Begins, Fails, Prepares, Executes, Waits, Compiles, Ends,
     Finishes
<1>8. WrittenAtEnd'
  <2>1. CASE Ends
    BY <1>1, <2>1 DEF WrittenAtEnd, Ended, Ends, WrittenInUnity, Saying
  <2>2. CASE Beside \/ Finishes
    BY <1>1, <2>2 DEF WrittenAtEnd, Ended, Beside, Finishes, Saying
  <2>3. CASE Begins \/ Fails \/ Prepares \/ Executes \/ Waits \/ Compiles
    BY <2>3 DEF WrittenAtEnd, Begins, Fails, Prepares, Executes, Waits, Compiles
  <2> QED
    BY <1>3, <2>1, <2>2, <2>3
<1>9. ErrorCodes'
  <2>1. CASE Fails
    <3>1. pc \notin {"report", "exited"} /\ ~infra
      BY <1>2, <2>1 DEF Fails
    <3> QED
      BY <1>1, <2>1, <3>1 DEF ErrorCodes, Fails, WrittenEarly
  <2>2. CASE Beside \/ Finishes
    BY <1>1, <2>2 DEF ErrorCodes, Beside, Finishes
  <2>3. CASE Begins \/ Prepares \/ Executes \/ Waits \/ Compiles \/ Ends
    BY <1>2, <2>3 DEF ErrorCodes, Begins, Prepares, Executes, Waits, Compiles, Ends
  <2> QED
    BY <1>3, <2>1, <2>2, <2>3
<1> QED
  BY <1>4, <1>5, <1>6, <1>7, <1>8, <1>9

\* What the scenario runner expects next of a run.
LEMMA PhasesAfterIs ==
  ASSUME NEW twoPhase
  PROVE  /\ PhasesAfter(<<>>, twoPhase) = {"compiling"}
         /\ PhasesAfter(<<"compiling">>, twoPhase) = {"compiling"}
         /\ {"done", "timeout_total"} \subseteq PhasesAfter(<<"compiling", "compiling">>, twoPhase)
         /\ twoPhase => "running" \in PhasesAfter(<<"compiling", "compiling">>, twoPhase)
         /\ PhasesAfter(<<"compiling", "compiling", "running">>, twoPhase) = {"done", "timeout_total"}
<1>1. PhasesAfter(<<>>, twoPhase) = {"compiling"}
  BY DEF PhasesAfter
<1>2. PhasesAfter(<<"compiling">>, twoPhase) = {"compiling"}
  BY DEF PhasesAfter
<1>3. <<"compiling", "compiling">> \notin {<<>>, <<"compiling">>}
  OBVIOUS
<1>4. {"done", "timeout_total"} \subseteq PhasesAfter(<<"compiling", "compiling">>, twoPhase)
  BY <1>3 DEF PhasesAfter
<1>5. twoPhase => "running" \in PhasesAfter(<<"compiling", "compiling">>, twoPhase)
  BY <1>3 DEF PhasesAfter
<1>6. PhasesAfter(<<"compiling", "compiling", "running">>, twoPhase) = {"done", "timeout_total"}
  <2> DEFINE s == <<"compiling", "compiling", "running">>
  <2>1. Len(s) = 3 /\ Last(s) = "running"
    BY DEF Last
  <2>2. s \notin {<<>>, <<"compiling">>} /\ s # <<"compiling", "compiling">>
    OBVIOUS
  <2> HIDE DEF s
  <2>3. PhasesAfter(s, twoPhase) = {"done", "timeout_total"}
    BY <2>1, <2>2 DEF PhasesAfter
  <2> QED
    BY <2>3 DEF s
<1> QED
  BY <1>1, <1>2, <1>4, <1>5, <1>6

\* A step of a cold run leaves what was written, or adds a phase that the scenario
\* runner expects next.
LEMMA WrittenMoves ==
  ASSUME TypeOK, CodesInv, ContractInv, Next, req.bridge = "off", Written' # Written
  PROVE  \E p \in PhasesAfter(Written, req.twoPhase) : Written' = Append(Written, p)
<1>1. Cold /\ WrittenEarly /\ WrittenInUnity /\ PhaseIsAsked /\ WrittenAtEnd /\ ErrorCodes
  BY DEF ContractInv
<1>2. infra => pc \in {"report", "exited"}
  BY DEF CodesInv, ErrorsEarly
<1>3. Beside \/ Begins \/ Fails \/ Prepares \/ Executes \/ Waits \/ Compiles \/ Ends \/ Finishes
  BY ColdSteps
<1> DEFINE early == Preparation \union {"exec"}
<1>p. /\ \A s \in Executing \union Results : s \notin early
      /\ \A s \in Executing : s \notin {"start", "report", "exited"}
  BY DEF Preparation, Choosing, Executing, Results, Over
<1>t. \A s \in {"", "compiling", "running"} : s \notin Terminal
  BY TerminalPhases
<1>4. ~Beside
  <2> SUFFICES ASSUME Beside PROVE Written' = Written
    OBVIOUS
  <2> QED
    BY DEF Beside, Written, Told, LastTold
<1>5. ~Prepares
  <2> SUFFICES ASSUME Prepares PROVE Written' = Written
    OBVIOUS
  <2>1. mgr' = mgr /\ pc \in early /\ pc' \in early
    BY DEF Prepares
  <2> QED
    BY <2>1 DEF Written
<1>6. ~Fails
  <2> SUFFICES ASSUME Fails PROVE Written' = Written
    OBVIOUS
  <2>1. mgr' = mgr /\ pc \in early /\ infra'
    BY DEF Fails
  <2> QED
    BY <2>1 DEF Written
<1>7. ~Waits
  <2> SUFFICES ASSUME Waits PROVE Written' = Written
    OBVIOUS
  <2>1. mgr' = mgr /\ phase' = phase /\ pc \notin early /\ pc' \notin early /\ infra' = infra
    BY <1>p DEF Waits
  <2> QED
    BY <2>1 DEF Written, Told, LastTold
<1>8. ~Finishes
  <2> SUFFICES ASSUME Finishes PROVE Written' = Written
    OBVIOUS
  <2>1. mgr' = mgr /\ phase' = phase /\ pc \notin early /\ pc' \notin early /\ infra' = infra
    BY <1>p DEF Finishes
  <2> QED
    BY <2>1 DEF Written, Told, LastTold
<1>9. CASE Begins
  <2>1. mgr = "" /\ mgr' = "compiling" /\ pc' \in early
    BY <1>1, <1>9 DEF Begins, WrittenEarly, Preparation, Choosing
  <2>2. Written = <<>> /\ Written' = <<"compiling">>
    BY <2>1 DEF Written
  <2> QED
    BY <2>2, PhasesAfterIs
<1>10. CASE Executes
  <2>1. pc = "exec" /\ pc \in early /\ mgr # "" /\ ~infra
    BY <1>1, <1>2, <1>10 DEF Executes, WrittenEarly
  <2>2. mgr' = "compiling" /\ phase' # "test" /\ pc' \notin early /\ ~infra'
    BY <1>10, <2>1, <1>p DEF Executes, Executing
  <2>3. Written = <<"compiling">>
    BY <2>1 DEF Written
  <2>4. Written' = <<"compiling", "compiling">>
    BY <2>2, <1>t DEF Written, Told
  <2> QED
    BY <2>3, <2>4, PhasesAfterIs
<1>11. CASE Compiles
  <2>1. /\ pc \in Executing /\ phase = "compile" /\ mgr = "compiling" /\ ~infra /\ req.twoPhase
        /\ pc \notin early
    BY <1>1, <1>2, <1>11, <1>p DEF Compiles, Executing, WrittenInUnity, Saying, PhaseIsAsked
  <2>2. mgr' = "running" /\ phase' = "test" /\ pc' \notin early /\ ~infra'
    BY <1>11, <2>1, <1>p DEF Compiles, Executing
  <2>3. Written = <<"compiling", "compiling">>
    BY <2>1, <1>t DEF Written, Told
  <2>4. Written' = <<"compiling", "compiling", "running">>
    BY <2>2, <1>t DEF Written, Told
  <2>5. "running" \in PhasesAfter(<<"compiling", "compiling">>, req.twoPhase)
    BY <2>1, PhasesAfterIs, Zenon
  <2>6. "running" \in PhasesAfter(Written, req.twoPhase)
    BY <2>3, <2>5
  <2>7. Written' = Append(Written, "running")
    BY <2>3, <2>4
  <2> QED
    BY <2>6, <2>7
<1>12. CASE Ends
  <2>1. pc \in Executing /\ pc \notin early /\ ~infra /\ mgr = Saying
    BY <1>1, <1>2, <1>12, <1>p DEF Ends, WrittenInUnity, Executing
  <2>2. pc' \notin early /\ ~infra' /\ phase' = phase
    BY <1>12, <2>1 DEF Ends, Preparation, Choosing
  <2>3. Written = Told /\ Told' = Told
    BY <2>1, <2>2, <1>t DEF Written, Told, Saying
  <2>4. mgr' # mgr
    <3> SUFFICES ASSUME mgr' = mgr PROVE FALSE
      OBVIOUS
    <3>1. Written' = Told
      BY <2>1, <2>2, <2>3, <1>t DEF Written, Saying
    <3> QED
      BY <2>3, <3>1
  <2>5. mgr' \in Terminal
    BY <1>12, <2>4 DEF Ends, Terminal
  <2>6. mgr' # ""
    BY <2>5, TerminalPhases
  <2>7. Written' = Append(Told, LastTold')
    BY <2>2, <2>3, <2>5, <2>6 DEF Written
  <2>8. LastTold' \in {"done", "timeout_total"}
    BY DEF LastTold
  <2>9. {"done", "timeout_total"} \subseteq PhasesAfter(Told, req.twoPhase)
    <3>1. CASE phase = "test"
      BY <3>1, PhasesAfterIs DEF Told
    <3>2. CASE phase # "test"
      BY <3>2, PhasesAfterIs DEF Told
    <3> QED
      BY <3>1, <3>2
  <2> QED
    BY <2>3, <2>7, <2>8, <2>9
<1> QED
  BY <1>3, <1>4, <1>5, <1>6, <1>7, <1>8, <1>9, <1>10, <1>11, <1>12

\* The outcomes that the scenario runner expects of a run, by what it has written.
LEMMA OutcomesAfterIs ==
  /\ Outcome(0, TRUE, "run") \in OutcomesAfter(<<>>)
  /\ Outcome(0, TRUE, "run") \in OutcomesAfter(<<"compiling">>)
  /\ Outcome(7, TRUE, "run") \in OutcomesAfter(<<"compiling">>)
<1>1. OutcomesAfter(<<>>) = {Outcome(0, TRUE, "run")}
  BY Zenon DEF OutcomesAfter
<1>2. <<"compiling">> # <<>>
  OBVIOUS
<1>3. OutcomesAfter(<<"compiling">>) = {Outcome(0, TRUE, "run"), Outcome(7, TRUE, "run")}
  BY <1>2, Zenon DEF OutcomesAfter
<1> QED
  BY <1>1, <1>3

LEMMA OutcomesAtEnd ==
  ASSUME NEW written, written # <<>>, written # <<"compiling">>
  PROVE  OutcomesAfter(written) =
           {Outcome(c, FALSE, "run") : c \in Codes \intersect
              (IF Last(written) = "done" THEN {0, 1, 2, 3, 6, 9, 10}
               ELSE IF Last(written) = "timeout_total" THEN {4, 8, 9}
               ELSE {2, 9})}
BY Zenon DEF OutcomesAfter

\* A log of two phases is not one that a run has before Unity.
LEMMA LongLog ==
  ASSUME NEW s \in Seq(RunPhases), Len(s) >= 2
  PROVE  s # <<>> /\ s # <<"compiling">>
<1>1. Len(<<"compiling">>) = 1 /\ Len(<<>>) = 0
  OBVIOUS
<1>2. ~(1 >= 2) /\ ~(0 >= 2)
  OBVIOUS
<1> QED
  BY <1>1, <1>2, Zenon

\* The logs of a run in Unity.
LEMMA ToldIs ==
  /\ Told \in Seq(RunPhases) /\ Len(Told) >= 2
  /\ Last(Told) \in {"compiling", "running"}
<1>1. CASE phase = "test"
  <2> DEFINE s == <<"compiling", "compiling", "running">>
  <2>1. s \in Seq(RunPhases)
    BY DEF RunPhases
  <2>2. Len(s) = 3 /\ s[3] = "running"
    OBVIOUS
  <2>3. Told = s
    BY <1>1 DEF Told
  <2> HIDE DEF s
  <2>4. Last(s) = "running"
    BY <2>2 DEF Last
  <2>5. Len(s) >= 2 /\ Last(s) \in {"compiling", "running"}
    BY <2>2, <2>4
  <2> QED
    BY <2>1, <2>3, <2>5, Zenon
<1>2. CASE phase # "test"
  <2> DEFINE s == <<"compiling", "compiling">>
  <2>1. s \in Seq(RunPhases)
    BY DEF RunPhases
  <2>2. Len(s) = 2 /\ s[2] = "compiling"
    OBVIOUS
  <2>3. Told = s
    BY <1>2 DEF Told
  <2> HIDE DEF s
  <2>4. Last(s) = "compiling"
    BY <2>2 DEF Last
  <2>5. Len(s) >= 2 /\ Last(s) \in {"compiling", "running"}
    BY <2>2, <2>4
  <2> QED
    BY <2>1, <2>3, <2>5, Zenon
<1> QED
  BY <1>1, <1>2

\* What the scenario runner counts with when the run returns.
RunReturns ==
    req.bridge = "off" /\ pc \in {"report", "exited"} =>
        \E outcome \in OutcomesAfter(Written) :
            infra = outcome.err /\ exit = EffectiveCode(outcome)

\* What a run has written when it returns, and its codes, are among the outcomes the
\* scenario runner knows.
LEMMA ContractAtEnd ==
  ASSUME TypeOK, CodesInv, ContractInv, ExitCodes \subseteq Codes
  PROVE  RunReturns
<1> SUFFICES ASSUME req.bridge = "off", pc \in {"report", "exited"}
             PROVE  \E outcome \in OutcomesAfter(Written) :
                        infra = outcome.err /\ exit = EffectiveCode(outcome)
  BY DEF RunReturns
<1>1. WrittenEarly /\ WrittenAtEnd /\ ErrorCodes
  BY DEF ContractInv
<1>2. pc \in Results /\ pc \in Over /\ pc \notin Preparation \union {"exec"}
  BY DEF Results, Over, Preparation, Choosing
<1>3. infra \in BOOLEAN
  BY TypeParts DEF ResultType
<1>4. {0, 1, 2, 3, 4, 6, 8, 9, 10} \subseteq Codes
  BY DEF ExitCodes
<1>5. CASE infra
  <2>1. exit \in {1, 7} /\ (mgr = "" => exit = 1) /\ mgr \in {"", "compiling"}
    BY <1>1, <1>5 DEF ErrorCodes, WrittenEarly
  <2>2. CASE exit = 1
    <3>1. Written \in {<<>>, <<"compiling">>}
      BY <1>5, <2>1 DEF Written
    <3>2. Outcome(0, TRUE, "run") \in OutcomesAfter(Written)
      <4>1. CASE Written = <<>>
        BY <4>1, OutcomesAfterIs
      <4>2. CASE Written = <<"compiling">>
        BY <4>2, OutcomesAfterIs
      <4> QED
        BY <3>1, <4>1, <4>2
    <3>3. Outcome(0, TRUE, "run").err = TRUE /\ EffectiveCode(Outcome(0, TRUE, "run")) = 1
      BY DEF Outcome, EffectiveCode
    <3> QED
      BY <1>3, <1>5, <2>2, <3>2, <3>3
  <2>3. CASE exit = 7
    <3>0. mgr # ""
      <4>1. 7 # 1
        OBVIOUS
      <4> QED
        BY <2>1, <2>3, <4>1, Zenon
    <3>1. Written = <<"compiling">>
      BY <1>5, <3>0 DEF Written
    <3>2. Outcome(7, TRUE, "run") \in OutcomesAfter(Written)
      BY <3>1, OutcomesAfterIs
    <3>3. Outcome(7, TRUE, "run").err = TRUE /\ EffectiveCode(Outcome(7, TRUE, "run")) = 7
      BY DEF Outcome, EffectiveCode
    <3> QED
      BY <1>3, <1>5, <2>3, <3>2, <3>3
  <2> QED
    BY <2>1, <2>2, <2>3
<1>6. CASE ~infra
  <2>1. exit = 9 \/ exit = raw
    BY <1>2, <1>6 DEF CodesInv, CodesAtEnd
  <2>2. Ended(mgr, raw)
    BY <1>1, <1>2, <1>6 DEF WrittenAtEnd
  <2>3. mgr # ""
    BY <2>2, TerminalPhases DEF Ended, Saying
  <2>4. Written = IF mgr \in Terminal THEN Append(Told, LastTold) ELSE Told
    BY <1>2, <1>6, <2>3 DEF Written
  <2>5. /\ Told \in Seq(RunPhases) /\ Len(Told) >= 2
        /\ Last(Told) \in {"compiling", "running"}
    BY ToldIs
  <2> DEFINE Out == {Outcome(c, FALSE, "run") : c \in Codes \intersect
                        (IF mgr \notin Terminal THEN {2, 9}
                         ELSE IF mgr = "done" THEN {0, 1, 2, 3, 6, 9, 10} ELSE {4, 8, 9})}
  <2>6. OutcomesAfter(Written) = Out
    <3>1. CASE mgr \notin Terminal
      <4>1. Written = Told /\ Written # <<>> /\ Written # <<"compiling">>
        BY <2>4, <2>5, LongLog, <3>1
      <4>2. Last(Written) \in {"compiling", "running"}
        BY <2>5, <4>1
      <4> QED
        BY <3>1, <4>1, <4>2, OutcomesAtEnd
    <3>2. CASE mgr \in Terminal
      <4>1. Written = Append(Told, LastTold) /\ LastTold \in RunPhases
        BY <2>4, <3>2 DEF LastTold, RunPhases
      <4>2. Written \in Seq(RunPhases) /\ Last(Written) = LastTold /\ Len(Written) >= 2
        BY <2>5, <4>1 DEF Last
      <4>3. Written # <<>> /\ Written # <<"compiling">>
        BY LongLog, <4>2
      <4>4. LastTold = IF mgr = "done" THEN "done" ELSE "timeout_total"
        BY DEF LastTold
      <4> QED
        BY <3>2, <4>2, <4>3, <4>4, OutcomesAtEnd
    <3> QED
      BY <3>1, <3>2
  <2>7. Outcome(exit, FALSE, "run") \in Out
    <3>1. /\ mgr \notin Terminal => exit \in {2, 9}
          /\ mgr = "done" => exit \in {0, 1, 2, 3, 6, 9, 10}
          /\ mgr \in Terminal \ {"done"} => exit \in {4, 8, 9}
      BY <2>1, <2>2, TerminalPhases DEF Ended, Saying
    <3>2. "done" \in Terminal
      BY TerminalPhases
    <3> QED
      BY <3>1, <3>2, <1>4
  <2>8. Outcome(exit, FALSE, "run").err = FALSE /\ EffectiveCode(Outcome(exit, FALSE, "run")) = exit
    BY DEF Outcome, EffectiveCode
  <2> HIDE DEF Out
  <2> QED
    BY <1>3, <1>6, <2>6, <2>7, <2>8
<1> QED
  BY <1>3, <1>5, <1>6

\* The contract holds in every state of a run.
THEOREM ContractHolds == Spec => []ContractInv
<1>1. Init => ContractInv
  BY DEF Init, ContractInv, Cold, WrittenEarly, WrittenInUnity, PhaseIsAsked, WrittenAtEnd,
     ErrorCodes, Preparation, Choosing, Executing, Results, Over
<1>2. RunInv /\ ContractInv /\ [Next]_vars => ContractInv'
  <2>1. ASSUME RunInv, ContractInv, Next PROVE ContractInv'
    BY <2>1, ContractStep DEF RunInv
  <2>2. ASSUME ContractInv, UNCHANGED vars PROVE ContractInv'
    <3>1. UNCHANGED <<req, pc, phase, mgr, raw, exit, infra>>
      BY <2>2 DEF vars, statusVars, resultVars
    <3> QED
      BY <2>2, <3>1 DEF ContractInv, Cold, WrittenEarly, WrittenInUnity, PhaseIsAsked,
         WrittenAtEnd, Ended, Saying, ErrorCodes
  <2> QED
    BY <2>1, <2>2
<1> QED
  BY <1>1, <1>2, Invariant, PTL DEF Spec

\* A run of the run service writes its phases in the order in which the scenario runner
\* lets an instance write them: its steps are steps of Write, or none.
THEOREM PhasesAsExpected ==
  Spec => [][req.bridge = "off" /\ Written' # Written =>
               \E p \in PhasesAfter(Written, req.twoPhase) : Written' = Append(Written, p)]_vars
<1>1. RunInv /\ ContractInv /\ [Next]_vars =>
        [req.bridge = "off" /\ Written' # Written =>
           \E p \in PhasesAfter(Written, req.twoPhase) : Written' = Append(Written, p)]_vars
  BY WrittenMoves DEF RunInv
<1> QED
  BY <1>1, Invariant, ContractHolds, PTL DEF Spec

\* When a run returns, its exit code and whether it is an error are an outcome that the
\* scenario runner expects after the phases written, whichever codes are considered.
THEOREM ReturnsAsExpected ==
  ASSUME ExitCodes \subseteq Codes
  PROVE  Spec => []RunReturns
<1>1. RunInv /\ ContractInv => RunReturns
  BY ContractAtEnd DEF RunInv
<1> QED
  BY <1>1, Invariant, ContractHolds, PTL
=============================================================================
