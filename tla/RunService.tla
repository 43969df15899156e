----------------------------- MODULE RunService -----------------------------
(***************************************************************************)
(* One testplay run: the main goroutine of the run service with the Unity  *)
(* executor, the heartbeat of the status file, the monitor of the mounted  *)
(* child and the signal handler, from the artifact directory to os.Exit.   *)
(*                                                                         *)
(* The workspace is a shell (the directory with the copied project) and,   *)
(* for vhdx-diff, a child mounted in it under a lease of the broker.  The  *)
(* broker is its answers; MODULE LeaseBroker models what it does.  The     *)
(* warm bridge is its outcome; MODULE Bridge models how it is reached.     *)
(***************************************************************************)
EXTENDS Naturals, Sequences, FiniteSets

CONSTANTS
    Requests,      \* the requests considered
    NoCode,        \* no exit code: the file was not written
    MaxBeats,      \* bound: ticks of the heartbeat
    MaxFaults      \* bound: operations that fail for a reason of their own

Backends == {"", "legacy", "image", "vhdx-diff", "auto"}
Request == [backend: Backends, shadow: BOOLEAN, bridge: {"off", "on", "forced"},
            twoPhase: BOOLEAN, filtered: BOOLEAN, keep: BOOLEAN, scenario: BOOLEAN]

ExitCodes == 0..10
Terminal == {"done", "timeout_compile", "timeout_test", "timeout_total", "interrupted"}
Phases == {"compiling", "running"} \union Terminal

ASSUME RunAssumption ==
    /\ Requests \subseteq Request
    /\ NoCode \in Nat \ ExitCodes
    /\ MaxBeats \in Nat /\ MaxFaults \in Nat

Stages == {"start", "bridge", "warm", "cold", "hello", "image", "shell", "library",
           "parent", "acquire", "exec", "launch", "unity", "classify", "ended", "cache", "release", "save",
           "summary", "manifest", "deferred", "report", "exited"}

VARIABLES
    req,        \* the request
    pc,         \* where the main goroutine is
    phase,      \* the invocation of Unity: single, compile or test
    ctx,        \* the context of the run: live, or what ended it
    cut,        \* the context of Unity: that of the run, or the monitor
    handler,    \* the signal handler
    strikes,    \* failed heartbeats to the broker in a row
    mgr,        \* Manager.last
    write,      \* the phase the main goroutine is about to write to the file
    beat,       \* the phase the heartbeat is about to write to the file
    beats,      \* ticks so far
    file,       \* the phase in the status file
    events,     \* events.ndjson, as phases
    unity,      \* is Unity running?
    kind,       \* the workspace: none, legacy, image or vhdx
    shell,      \* the directory of the workspace
    child,      \* the child mounted in it
    lease,      \* does the run service hold the lease of the child?
    answer,     \* the broker's cached answer to the release request
    pending,    \* workspaceCleanupPending
    raw,        \* the exit code of the execution
    exit,       \* the exit code of the process
    infra,      \* Run returned an error instead of a response
    saved, summary, manifest,    \* the exit codes in the files of the run
    warnings,   \* what the response warns of
    faults      \* faults so far

statusVars == <<mgr, write, beat, beats, file, events>>
contextVars == <<ctx, cut, handler, strikes>>
workspaceVars == <<kind, shell, child, lease, answer, pending>>
resultVars == <<raw, exit, infra, saved, summary, manifest, warnings>>
vars == <<req, pc, phase, unity, faults, statusVars, contextVars, workspaceVars, resultVars>>

Init ==
    /\ req \in Requests
    /\ pc = "start" /\ phase = "single"
    /\ ctx = "live" /\ cut = "live" /\ handler = "waiting" /\ strikes = 0
    /\ mgr = "" /\ write = "" /\ beat = "" /\ beats = 0 /\ file = "" /\ events = <<>>
    /\ unity = FALSE
    /\ kind = "none" /\ shell = "absent" /\ child = "none" /\ lease = FALSE
    /\ answer = "none" /\ pending = FALSE
    /\ raw = NoCode /\ exit = NoCode /\ infra = FALSE
    /\ saved = NoCode /\ summary = NoCode /\ manifest = NoCode
    /\ warnings = {} /\ faults = 0

At(stage) == pc = stage /\ write = "" /\ UNCHANGED req
Fault == faults < MaxFaults /\ faults' = faults + 1
NoFault == UNCHANGED faults
\* An operation that takes the context fails for it, or for a reason of its own.
FaultOrCut == IF ctx = "live" THEN Fault ELSE NoFault

-----------------------------------------------------------------------------
(* The status writer *)

\* The phase is remembered under the mutex; the file is written after it is
\* released, and the event after the file.
Say(p) == mgr' = p /\ write' = p /\ UNCHANGED <<beat, beats, file, events>>

Publish ==
    /\ write # "" /\ pc # "exited"
    /\ write' = ""
    /\ \/ NoFault /\ file' = write /\ events' = Append(events, write)
       \/ Fault /\ UNCHANGED <<file, events>>              \* the file cannot be written
       \/ Fault /\ file' = write /\ UNCHANGED events       \* the event log cannot
    /\ UNCHANGED <<req, pc, phase, unity, mgr, beat, beats,
                   contextVars, workspaceVars, resultVars>>

\* The goroutine runs until the context of the run ends or Run returns.
HeartbeatTick ==
    /\ mgr # "" /\ beat = "" /\ pc \notin {"report", "exited"} /\ ctx = "live"
    /\ beats < MaxBeats
    /\ beat' = mgr /\ beats' = beats + 1
    /\ UNCHANGED <<req, pc, phase, unity, faults, mgr, write, file, events,
                   contextVars, workspaceVars, resultVars>>

HeartbeatWrite ==
    /\ beat # "" /\ pc # "exited"
    /\ file' = beat /\ beat' = ""
    /\ UNCHANGED <<req, pc, phase, unity, faults, mgr, write, beats, events,
                   contextVars, workspaceVars, resultVars>>

-----------------------------------------------------------------------------
(* The context: the deadline of the run and the signal handler *)

EndContext(why) ==
    /\ ctx' = IF ctx = "live" THEN why ELSE ctx
    /\ cut' = IF cut = "live" THEN why ELSE cut

Deadline ==
    /\ ctx = "live" /\ pc # "exited"
    /\ EndContext("deadline")
    /\ UNCHANGED <<req, pc, phase, unity, faults, handler, strikes,
                   statusVars, workspaceVars, resultVars>>

\* One signal only: the handler returns after it.
Signal ==
    /\ handler = "waiting" /\ pc # "exited"
    /\ EndContext("signal") /\ handler' = "writing"
    /\ UNCHANGED <<req, pc, phase, unity, faults, strikes,
                   statusVars, workspaceVars, resultVars>>

\* A writer of its own, to the status file of single runs.
HandlerWrites ==
    /\ handler = "writing" /\ pc # "exited"
    /\ handler' = "done"
    /\ file' = IF req.scenario THEN file ELSE "interrupted"
    /\ UNCHANGED <<req, pc, phase, unity, faults, ctx, cut, strikes,
                   mgr, write, beat, beats, events, workspaceVars, resultVars>>

\* The monitor asks the broker every few seconds while Unity runs under a
\* lease: the third failure in a row, or a full host, ends Unity.
Monitored == lease /\ cut = "live" /\ pc \in {"launch", "unity", "classify"}
MaxStrikes == 3

\* Bug: one failure too many is tolerated.
MonitorBeatLate ==
    /\ Monitored /\ UNCHANGED ctx
    /\ \/ NoFault /\ strikes > 0 /\ strikes' = 0 /\ UNCHANGED cut
       \/ NoFault /\ cut' = "unsafe" /\ UNCHANGED strikes
       \/ /\ NoFault /\ strikes' = strikes + 1
          /\ cut' = IF strikes' > MaxStrikes THEN "unsafe" ELSE cut
    /\ UNCHANGED <<req, pc, phase, unity, handler, statusVars, workspaceVars, resultVars>>

MonitorBeat ==
    /\ Monitored /\ UNCHANGED ctx
    /\ \/ NoFault /\ strikes > 0 /\ strikes' = 0 /\ UNCHANGED cut
       \/ NoFault /\ cut' = "unsafe" /\ UNCHANGED strikes
       \/ /\ NoFault /\ strikes' = strikes + 1
          /\ cut' = IF strikes' >= MaxStrikes THEN "unsafe" ELSE cut
    /\ UNCHANGED <<req, pc, phase, unity, handler, statusVars, workspaceVars, resultVars>>

-----------------------------------------------------------------------------
(* Preparation *)

Go(stage) == pc' = stage

\* Run returns an error: no result of the run is written.
Fail(code) ==
    /\ Go("report") /\ infra' = TRUE /\ exit' = code
    /\ UNCHANGED <<raw, saved, summary, manifest, warnings>>

BridgeEligible ==
    req.backend = "" /\ ~req.shadow /\ ~req.twoPhase /\ req.bridge # "off"

Begin ==
    /\ At("start") /\ UNCHANGED <<phase, unity, contextVars, workspaceVars>>
    /\ \/ /\ Fail(1) /\ UNCHANGED statusVars
          /\ IF req.backend # "" /\ req.bridge = "forced" THEN NoFault ELSE Fault
       \/ /\ req.backend = "" \/ req.bridge # "forced"
          /\ Say("compiling") /\ NoFault /\ UNCHANGED resultVars
          /\ Go(IF BridgeEligible THEN "bridge" ELSE "cold")

ProbeBridge ==
    /\ At("bridge") /\ NoFault
    /\ \/ Go("cold") /\ UNCHANGED statusVars
       \/ Go("warm") /\ Say("compiling")
    /\ UNCHANGED <<phase, unity, contextVars, workspaceVars, resultVars>>

\* Plain, legacy and default runs need a shadow when the editor is open.
ChooseBackend ==
    /\ At("cold") /\ NoFault
    /\ \/ /\ req.backend = "" /\ ~req.shadow                  \* no editor is open
          /\ Go("exec") /\ UNCHANGED kind
       \/ /\ req.backend \in {"", "legacy"} /\ kind' = "legacy" /\ Go("shell")
       \/ /\ req.backend = "image" /\ kind' = "image" /\ Go("image")
       \/ /\ req.backend \in {"vhdx-diff", "auto"} /\ Go("hello") /\ UNCHANGED kind
    /\ UNCHANGED <<phase, unity, statusVars, contextVars, shell, child, lease, answer,
                   pending, resultVars>>

\* hello and admission; auto falls back to legacy, before anything is prepared.
HelloBroker ==
    /\ At("hello") /\ UNCHANGED <<phase, unity, statusVars, contextVars,
                                  shell, child, lease, answer, pending>>
    /\ \/ /\ ctx = "live" /\ NoFault /\ kind' = "vhdx" /\ Go("shell") /\ UNCHANGED resultVars
       \/ /\ FaultOrCut
          /\ IF req.backend = "auto"
             THEN kind' = "legacy" /\ Go("shell") /\ UNCHANGED resultVars
             ELSE Fail(1) /\ UNCHANGED kind

\* The image of the Library is there, or a Unity of its own builds it under
\* the lock of its key, in a directory that is not the workspace.
EnsureImage ==
    /\ At("image") /\ UNCHANGED <<phase, unity, statusVars, contextVars, workspaceVars>>
    /\ \/ NoFault /\ Go("shell") /\ UNCHANGED resultVars
       \/ FaultOrCut /\ \E code \in {1, 7} : Fail(code)

PrepareShell ==
    /\ At("shell") /\ UNCHANGED <<phase, unity, statusVars, contextVars,
                                  kind, child, lease, answer>>
    /\ \/ /\ ctx = "live" /\ NoFault /\ shell' = "present"
          /\ Go(CASE kind = "vhdx" -> "parent" [] kind = "image" -> "library" [] OTHER -> "exec")
          /\ pending' = (kind = "legacy") /\ UNCHANGED resultVars
       \/ /\ FaultOrCut /\ \E code \in {1, 7} : Fail(code)
          /\ shell' \in {"absent", "present"}                 \* best effort
          /\ UNCHANGED pending

\* The image is verified once more and copied into the shell; what was copied
\* is counted.  The clean-up after a failure is a best effort.
MaterializeImage ==
    /\ At("library") /\ UNCHANGED <<phase, unity, statusVars, contextVars,
                                    kind, child, lease, answer>>
    /\ \/ /\ ctx = "live" /\ NoFault /\ Go("exec")
          /\ pending' = TRUE /\ UNCHANGED <<shell, resultVars>>
       \/ /\ FaultOrCut /\ \E code \in {1, 7} : Fail(code)
          /\ shell' \in {"removed", "present"} /\ UNCHANGED pending

\* The parent is there, or is built here by a Unity of its own, or another
\* run builds it and this one asks again until its context ends.
EnsureParent ==
    /\ At("parent") /\ UNCHANGED <<phase, unity, statusVars, contextVars,
                                   kind, child, lease, answer, pending>>
    /\ \/ ctx = "live" /\ NoFault /\ Go("acquire") /\ UNCHANGED <<shell, resultVars>>
       \/ /\ FaultOrCut /\ \E code \in {1, 7} : Fail(code)
          /\ shell' \in {"removed", "present"}

AcquireChild ==
    /\ At("acquire") /\ UNCHANGED <<phase, unity, statusVars, contextVars, kind, answer>>
    /\ \/ /\ ctx = "live" /\ NoFault
          /\ child' = "mounted" /\ lease' = TRUE /\ pending' = TRUE
          /\ Go("exec") /\ UNCHANGED <<shell, resultVars>>
       \/ /\ FaultOrCut /\ \E code \in {1, 7} : Fail(code)
          /\ shell' \in {"removed", "present"}
          /\ child' \in {"none", "orphan"}                    \* refused, or the answer is lost
          /\ UNCHANGED <<lease, pending>>

-----------------------------------------------------------------------------
(* Execution *)

EndExecution(code, p) ==
    /\ raw' = code /\ unity' = FALSE /\ Go("ended")
    /\ Say(p)
    /\ UNCHANGED <<exit, infra, saved, summary, manifest, warnings>>

\* A context that ended, as exit code and phase: handleContextErr.
ContextOutcome(why) ==
    CASE why = "deadline" -> <<4, "timeout_total">>
      [] why = "signal"   -> <<8, "interrupted">>
      [] why = "unsafe"   -> <<4, "interrupted">>

WarmOutcomes == {0, 2, 3, 6, 9} \union (IF req.filtered THEN {10} ELSE {})

RunWarm ==
    /\ At("warm") /\ UNCHANGED <<phase, contextVars, workspaceVars>>
    /\ \/ /\ mgr = "compiling" /\ Say("running")             \* streamed progress
          /\ NoFault /\ UNCHANGED <<pc, unity, resultVars>>
       \/ Go("cold") /\ NoFault /\ UNCHANGED <<unity, statusVars, resultVars>>
       \/ \E code \in WarmOutcomes : EndExecution(code, "done") /\ NoFault
       \/ /\ ctx # "live" /\ NoFault
          /\ EndExecution(ContextOutcome(ctx)[1], ContextOutcome(ctx)[2])

Execute ==
    /\ At("exec") /\ NoFault
    /\ Say("compiling") /\ Go("launch")
    /\ phase' = IF req.twoPhase THEN "compile" ELSE "single"
    /\ UNCHANGED <<unity, contextVars, workspaceVars, resultVars>>

Launch ==
    /\ At("launch") /\ UNCHANGED <<phase, contextVars, workspaceVars>>
    /\ \/ /\ cut = "live" /\ unity' = TRUE /\ Go("unity")
          /\ NoFault /\ UNCHANGED <<statusVars, resultVars>>
       \/ /\ cut = "live" /\ Fault /\ EndExecution(1, "done")
       \/ /\ cut # "live" /\ Go("classify")
          /\ NoFault /\ UNCHANGED <<unity, statusVars, resultVars>>

\* The wait for Unity ends with an error that is not an exit code.
WaitFails == cut = "live" /\ Fault /\ EndExecution(1, "done")

CompileEnds ==
    /\ At("unity") /\ phase = "compile"
    /\ UNCHANGED <<contextVars, workspaceVars>>
    /\ \/ /\ Say("running") /\ phase' = "test" /\ Go("launch")
          /\ unity' = FALSE /\ NoFault /\ UNCHANGED resultVars
       \/ \E code \in {2, 6} : EndExecution(code, "done") /\ NoFault /\ UNCHANGED phase
       \/ WaitFails /\ UNCHANGED phase

TestsEnd ==
    /\ At("unity") /\ phase # "compile"
    /\ UNCHANGED <<phase, contextVars, workspaceVars>>
    /\ \/ \E code \in {0, 2, 3, 6} \union (IF req.filtered THEN {10} ELSE {}) :
            EndExecution(code, "done") /\ NoFault
       \/ WaitFails
       \/ /\ raw' = 2 /\ unity' = FALSE /\ Go("ended") /\ NoFault   \* the results do not parse
          /\ UNCHANGED <<statusVars, exit, infra, saved, summary, manifest, warnings>>

\* Bug: only the deadline of the phase ends Unity.
StopUnityPhaseOnly ==
    /\ At("unity") /\ phase # "single"
    /\ unity' = FALSE /\ Go("classify") /\ NoFault
    /\ UNCHANGED <<phase, statusVars, contextVars, workspaceVars, resultVars>>

\* Unity is killed when its context ends, or the phase's own deadline expires.
StopUnity ==
    /\ At("unity") /\ (cut # "live" \/ phase # "single")
    /\ unity' = FALSE /\ Go("classify") /\ NoFault
    /\ UNCHANGED <<phase, statusVars, contextVars, workspaceVars, resultVars>>

\* By the context as it is now, which may have ended since.
Classify ==
    /\ At("classify") /\ NoFault
    /\ IF cut # "live"
       THEN EndExecution(ContextOutcome(cut)[1], ContextOutcome(cut)[2])
       ELSE EndExecution(4, IF phase = "compile" THEN "timeout_compile" ELSE "timeout_test")
    /\ UNCHANGED <<phase, contextVars, workspaceVars>>

StopMonitor ==
    /\ At("ended") /\ NoFault /\ Go("cache")
    /\ warnings' = warnings \union (IF cut = "unsafe" THEN {"monitor"} ELSE {})
                            \union (IF raw = 10 THEN {"nothing ran"} ELSE {})
    /\ UNCHANGED <<phase, unity, statusVars, contextVars, workspaceVars, raw, exit,
                   infra, saved, summary, manifest>>

-----------------------------------------------------------------------------
(* After the execution *)

Warn(what) ==
    /\ warnings' = warnings \union {what}
    /\ UNCHANGED <<raw, exit, infra, saved, summary, manifest>>

WritesCacheBack == kind = "legacy" /\ ~req.scenario /\ raw \in {0, 3}

WriteCacheBack ==
    /\ At("cache") /\ Go(IF kind = "none" THEN "save" ELSE "release")
    /\ \/ (~WritesCacheBack \/ ctx = "live") /\ NoFault /\ UNCHANGED resultVars
       \/ WritesCacheBack /\ FaultOrCut /\ Warn("cache")
    /\ UNCHANGED <<phase, unity, statusVars, contextVars, workspaceVars>>

Released(keep) == IF keep THEN "retained" ELSE "released"

\* The broker handles a request id once and repeats its answer afterwards.
\* The request has a minute of its own, whatever became of the run's context.
ReleaseChild(keep, ok, error) ==
    /\ lease /\ UNCHANGED <<kind, shell, pending>>
    /\ \/ /\ answer = "none" /\ NoFault
          /\ child' = Released(keep) /\ answer' = "ok" /\ lease' = FALSE /\ ok
       \/ /\ answer = "none" /\ Fault                        \* done, but the answer is lost
          /\ child' = Released(keep) /\ answer' = "ok" /\ UNCHANGED lease /\ error
       \/ /\ answer = "none" /\ Fault                        \* refused, or never arrived
          /\ answer' \in {"refused", "none"} /\ UNCHANGED <<child, lease>> /\ error
       \/ /\ answer = "ok" /\ NoFault
          /\ lease' = FALSE /\ UNCHANGED <<child, answer>> /\ ok
       \/ /\ answer = "refused" /\ NoFault
          /\ UNCHANGED <<child, lease, answer>> /\ error

RemoveShell(keep, ok, error) ==
    /\ ~lease /\ UNCHANGED <<kind, child, lease, answer>>
    /\ \/ keep /\ pending' = FALSE /\ NoFault /\ UNCHANGED shell /\ ok
       \/ ~keep /\ shell' = "removed" /\ pending' = FALSE /\ NoFault /\ ok
       \/ ~keep /\ Fault /\ UNCHANGED <<shell, pending>> /\ error

\* Bug: the lease that could not be released is not reported.
ReleaseWorkspaceQuiet ==
    LET quiet == UNCHANGED resultVars
        onward == Go("save") IN
    /\ At("release") /\ UNCHANGED <<phase, unity, statusVars, contextVars>>
    /\ \/ ReleaseChild(req.keep, quiet /\ UNCHANGED pc, quiet /\ onward)
       \/ RemoveShell(req.keep, quiet /\ onward, quiet /\ onward)

\* The child first, then the shell; a failure is a warning and stays pending.
ReleaseWorkspace ==
    LET quiet == UNCHANGED resultVars
        onward == Go("save")
        warn == Warn(IF req.keep THEN "retain" ELSE "cleanup") IN
    /\ At("release") /\ UNCHANGED <<phase, unity, statusVars, contextVars>>
    /\ \/ ReleaseChild(req.keep, quiet /\ UNCHANGED pc, warn /\ onward)
       \/ RemoveShell(req.keep, quiet /\ onward, warn /\ onward)

SaveResult ==
    /\ At("save") /\ Go("summary")
    /\ \/ NoFault /\ saved' = raw /\ UNCHANGED warnings
       \/ Fault /\ UNCHANGED saved /\ warnings' = warnings \union {"result"}
    /\ UNCHANGED <<phase, unity, statusVars, contextVars, workspaceVars, raw, exit, infra,
                   summary, manifest>>

FinalCode == IF saved = NoCode THEN 9 ELSE raw

\* Bug: a summary that could not be written does not change the exit code.
SaveSummaryKeeps ==
    /\ At("summary") /\ Go("manifest") /\ exit' = FinalCode
    /\ \/ NoFault /\ summary' = FinalCode /\ UNCHANGED warnings
       \/ Fault /\ UNCHANGED summary /\ warnings' = warnings \union {"summary"}
    /\ UNCHANGED <<phase, unity, statusVars, contextVars, workspaceVars, raw, infra, saved,
                   manifest>>

SaveSummary ==
    /\ At("summary") /\ Go("manifest")
    /\ \/ NoFault /\ summary' = FinalCode /\ exit' = FinalCode /\ UNCHANGED warnings
       \/ Fault /\ exit' = 9 /\ UNCHANGED summary /\ warnings' = warnings \union {"summary"}
    /\ UNCHANGED <<phase, unity, statusVars, contextVars, workspaceVars, raw, infra, saved,
                   manifest>>

RetriesRelease == pending /\ ~req.keep

SaveManifest ==
    /\ At("manifest") /\ Go(IF RetriesRelease THEN "deferred" ELSE "report")
    /\ \/ NoFault /\ manifest' = exit /\ UNCHANGED <<exit, warnings>>
       \/ Fault /\ exit' = 9 /\ UNCHANGED manifest /\ warnings' = warnings \union {"manifest"}
    /\ UNCHANGED <<phase, unity, statusVars, contextVars, workspaceVars, raw, infra, saved,
                   summary>>

\* The deferred release, whose error is ignored.
RetryRelease ==
    /\ At("deferred") /\ UNCHANGED <<phase, unity, statusVars, contextVars, resultVars>>
    /\ \/ ReleaseChild(FALSE, UNCHANGED pc, Go("report"))
       \/ RemoveShell(FALSE, Go("report"), Go("report"))

\* The report is printed and the process exits, with whatever is in flight.
Report ==
    /\ At("report") /\ Go("exited") /\ NoFault
    /\ UNCHANGED <<phase, unity, statusVars, contextVars, workspaceVars, resultVars>>

-----------------------------------------------------------------------------
Main ==
    \/ Publish \/ Begin \/ ProbeBridge \/ RunWarm
    \/ ChooseBackend \/ HelloBroker \/ EnsureImage \/ PrepareShell \/ MaterializeImage
    \/ EnsureParent \/ AcquireChild
    \/ Execute \/ Launch \/ CompileEnds \/ TestsEnd \/ Classify \/ StopMonitor
    \/ WriteCacheBack \/ ReleaseWorkspace \/ SaveResult \/ SaveSummary \/ SaveManifest
    \/ RetryRelease \/ Report

Next ==
    \/ Main \/ StopUnity
    \/ HeartbeatTick \/ HeartbeatWrite
    \/ Deadline \/ Signal \/ HandlerWrites \/ MonitorBeat

\* Steps of the main goroutine that do not wait for Unity or for the editor.
Proceed == Publish \/ (Main /\ pc \notin {"unity", "warm", "image", "parent"})
\* Those waits end by themselves only when the context has ended.
StopWaiting == ctx # "live" /\ (EnsureImage \/ EnsureParent \/ RunWarm)

Fairness ==
    /\ WF_vars(Proceed) /\ WF_vars(StopWaiting) /\ WF_vars(StopUnity)
    /\ WF_vars(Deadline)

Spec == Init /\ [][Next]_vars /\ Fairness

-----------------------------------------------------------------------------
(* Properties *)

\* Every variable has its type.
TypeOK ==
    /\ req \in Requests /\ pc \in Stages /\ phase \in {"single", "compile", "test"}
    /\ ctx \in {"live", "deadline", "signal"} /\ cut \in {"live", "deadline", "signal", "unsafe"}
    /\ handler \in {"waiting", "writing", "done"} /\ strikes \in 0..MaxStrikes
    /\ {mgr, write, beat, file} \subseteq Phases \union {""}
    /\ beats \in 0..MaxBeats /\ faults \in 0..MaxFaults
    /\ events \in Seq(Phases) /\ unity \in BOOLEAN
    /\ kind \in {"none", "legacy", "image", "vhdx"}
    /\ shell \in {"absent", "present", "removed"}
    /\ child \in {"none", "mounted", "orphan", "released", "retained"}
    /\ lease \in BOOLEAN /\ answer \in {"none", "ok", "refused"} /\ pending \in BOOLEAN
    /\ {raw, exit, saved, summary, manifest} \subseteq ExitCodes \union {NoCode}
    /\ infra \in BOOLEAN
    /\ warnings \subseteq {"monitor", "nothing ran", "cache", "cleanup", "retain", "result",
                           "summary", "manifest"}
    /\ cut = "live" => strikes < MaxStrikes

\* Unless it is 9, the exit code of a run is the one in its result, its
\* summary and its manifest: an agent that sees it finds all three.
ExitTellsPersisted ==
    pc = "exited" /\ ~infra /\ exit # 9 =>
        exit = raw /\ saved = exit /\ summary = exit /\ manifest = exit

\* A run that returns a result leaves a workspace or a mounted child behind
\* only if it was told to keep it, or says so in a warning.
NoSilentLeftover ==
    pc = "exited" /\ ~infra /\ (shell = "present" \/ child = "mounted") =>
        req.keep \/ "cleanup" \in warnings

\* The directory is not removed while the child the run service holds a lease
\* of is mounted in it, nor while Unity runs in it.
ShellOutlivesChild ==
    shell = "removed" => child # "mounted" /\ ~lease /\ (unity => kind = "none")

\* What was to be kept is never removed once Unity has run in it.
KeepIsKept ==
    req.keep /\ raw # NoCode /\ kind # "none" => shell = "present" /\ child # "released"

\* Of a workspace with a leased child nothing is lost and nothing is left
\* unsaid, through every fallback, failed release and deferred retry.
WorkspaceIsAccountedFor == NoSilentLeftover /\ ShellOutlivesChild /\ KeepIsKept

\* The event log of a run has at most one terminal event, nothing after it,
\* and it agrees with the result: no run that was cut short reads as
\* finished, and none that finished as cut short.
EventsTellOutcome ==
    \A i \in 1..Len(events) : events[i] \in Terminal =>
        /\ i = Len(events) /\ raw # NoCode
        /\ raw = 8 => events[i] = "interrupted"
        /\ raw = 4 <=> events[i] \in Terminal \ {"done", "interrupted"}
                       \/ (events[i] = "interrupted" /\ cut = "unsafe")

\* Whatever happens, the process exits, with an event log that is true.
RunEnds == <>(pc = "exited" /\ EventsTellOutcome)
=============================================================================
