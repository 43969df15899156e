------------------------------- MODULE Bridge -------------------------------
(***************************************************************************)
(* The warm-editor bridge: testplay (internal/bridge/client.go and         *)
(* internal/unity/bridge_executor.go) asks an open Unity Editor            *)
(* (unity/com.testplay.bridge/Editor) for a test run. They share nothing   *)
(* but files, each of which is written atomically.                         *)
(*                                                                         *)
(* The editor is one thread: a step is one BridgeServer.Update, or one     *)
(* callback of the Test Framework. The Test Framework itself is external;  *)
(* it is modelled by what the bridge reckons with: a run goes on after     *)
(* RunFinished, its registry is empty for a while after a domain reload,   *)
(* errors come late, and a person may start runs of their own.             *)
(***************************************************************************)
EXTENDS Naturals

CONSTANTS
    Runs,         \* the runs for which testplay asks the editor
    None,
    MaxSessions,  \* bound: editor processes, one after the other
    MaxReloads,   \* bound: domain reloads
    MaxForeign,   \* bound: test runs that a person starts in the editor
    MaxFaults     \* bound: failing writes and reads, and rejected Executes

VARIABLES
    request,   \* requests/<run>.req.json: the editor session it names, 0: none
    response,  \* responses/<run>.resp.json
    tombstone, \* requests/<run>.tombstone.json
    marker,    \* requests/<run>.cancel: the execution state it records
    pending,   \* the private pending response exists
    xml,       \* results.xml: none, own, or foreign (of a run the bridge does not own)
    hand,      \* the handshake: session (0: stale) and whether it says idle
    client,    \* testplay, per run
    session,   \* KeySession of the editor process, 0: no editor
    sessions,  \* editor processes so far
    slot,      \* the claimed run in SessionState, which survives a domain reload
    observer,  \* s_controller; a sealed one ignores callbacks like one detached
    job,       \* the Test Framework's job of a run
    foreign,   \* its job of somebody else
    restoring, \* after a reload, until the Test Framework has its registry back
    executed,  \* history: how often the Test Framework accepted the run
    failed,    \* history: the Test Framework reported an error of the run
    reloads, foreigns, faults

files  == <<request, response, tombstone, marker, pending, xml>>
editor == <<session, sessions, slot, observer>>
tests  == <<job, foreign, restoring, executed, failed>>
bounds == <<reloads, foreigns, faults>>
vars   == <<files, hand, client, editor, tests, bounds>>

Sessions   == 0 .. MaxSessions
Outcomes   == {"completed", "compile_failed", "busy", "rejected", "indeterminate"}
Executions == {"not_started", "possibly_started"}
Phases     == {"none", "new", "refreshing", "running", "completing", "cancelling"}

Responses  == [outcome: Outcomes, session: Sessions]
Tombstones == [state: Executions, session: Sessions]
Slots == [run: Runs \cup {None}, phase: Phases,
          guid: BOOLEAN,     \* KeyOwnedRunGuid is recorded
          count: 0 .. 2,     \* inactive observations in a row
          only: BOOLEAN,     \* KeyCancelTombstoneOnly
          probe: BOOLEAN,    \* KeyCancelRequireProbe
          grace: BOOLEAN]    \* KeyCancelNotBefore lies ahead

ASSUME BridgeAssumption ==
    /\ None \notin Runs /\ None \notin Responses /\ None \notin Tombstones
    /\ None \notin Executions
    /\ MaxSessions \in Nat \ {0} /\ MaxReloads \in Nat
    /\ MaxForeign \in Nat /\ MaxFaults \in Nat

TypeOK ==
    /\ request \in [Runs -> Sessions]
    /\ response \in [Runs -> Responses \cup {None}]
    /\ tombstone \in [Runs -> Tombstones \cup {None}]
    /\ marker \in [Runs -> Executions \cup {None}]
    /\ pending \in [Runs -> BOOLEAN]
    /\ xml \in [Runs -> {"none", "own", "foreign"}]
    /\ hand \in [session: Sessions, idle: BOOLEAN]
    /\ client \in [Runs -> {"start", "waiting", "result", "compile", "unknown",
                            "abandoned", "cold", "killed"}]
    /\ session \in Sessions /\ sessions \in Sessions
    /\ slot \in Slots
    /\ observer \in {"none", "new", "started", "finished"}
    /\ job \in [Runs -> {"none", "queued", "started", "finished", "cleanup"}]
    /\ foreign \in {"none", "queued", "started"}
    /\ restoring \in BOOLEAN
    /\ executed \in [Runs -> 0 .. 2]
    /\ failed \in [Runs -> BOOLEAN]
    /\ reloads \in 0 .. MaxReloads /\ foreigns \in 0 .. MaxForeign /\ faults \in 0 .. MaxFaults

-----------------------------------------------------------------------------
NoSlot == [run |-> None, phase |-> "none", guid |-> FALSE, count |-> 0,
           only |-> FALSE, probe |-> FALSE, grace |-> FALSE]

Init ==
    /\ request = [r \in Runs |-> 0]
    /\ response = [r \in Runs |-> None]
    /\ tombstone = [r \in Runs |-> None]
    /\ marker = [r \in Runs |-> None]
    /\ pending = [r \in Runs |-> FALSE]
    /\ xml = [r \in Runs |-> "none"]
    /\ hand = [session |-> 1, idle |-> TRUE]
    /\ client = [r \in Runs |-> "start"]
    /\ session = 1 /\ sessions = 1
    /\ slot = NoSlot
    /\ observer = "none"
    /\ job = [r \in Runs |-> "none"]
    /\ foreign = "none"
    /\ restoring = FALSE
    /\ executed = [r \in Runs |-> 0]
    /\ failed = [r \in Runs |-> FALSE]
    /\ reloads = 0 /\ foreigns = 0 /\ faults = 0

Spend(n) == faults + n <= MaxFaults /\ faults' = faults + n

\* TestRunnerApi.IsRunning and IsAnyRunActive, as far as they can be answered:
\* not before the registry is restored, and no longer in the cleanup frame.
Busy(r) == ~restoring /\ job[r] \in {"queued", "started", "finished"}
AnyBusy == (~restoring /\ foreign # "none") \/ \E r \in Runs : Busy(r)

-----------------------------------------------------------------------------
(* testplay *)

\* bridge.Probe accepts the handshake and Client.Run writes its request; if it
\* cannot, the run falls back to a cold one.
Submit(r) ==
    /\ client[r] = "start" /\ hand.session # 0 /\ hand.idle
    /\ \/ /\ request' = [request EXCEPT ![r] = hand.session]
          /\ client' = [client EXCEPT ![r] = "waiting"]
          /\ UNCHANGED faults
       \/ /\ Spend(1)
          /\ client' = [client EXCEPT ![r] = "cold"]
          /\ UNCHANGED request
    /\ UNCHANGED <<response, tombstone, marker, pending, xml, hand, editor, tests, reloads, foreigns>>

\* Mutant: the response of another editor session is taken for an answer.
ReadableOfAnySession(answer, r) == answer # None

\* readResponse and readTombstone ignore what another editor session wrote.
Readable(answer, r) == answer # None /\ answer.session = request[r]

\* Client.Run looks for a response, then for a tombstone; ExecuteBridge maps
\* what it finds to a result, to exit code 9, or to the cold fallback.
Verdict(r) ==
    IF Readable(response[r], r)
    THEN CASE response[r].outcome = "completed" ->
                IF xml[r] # "none" THEN "result" ELSE "unknown"
           [] response[r].outcome = "compile_failed" -> "compile"
           [] response[r].outcome = "indeterminate" -> "unknown"
           [] OTHER -> "cold"
    ELSE IF tombstone[r].state = "not_started" THEN "cold" ELSE "unknown"

Poll(r) ==
    /\ client[r] = "waiting"
    /\ Readable(response[r], r) \/ Readable(tombstone[r], r)
    /\ client' = [client EXCEPT ![r] = Verdict(r)]
    /\ UNCHANGED <<files, hand, editor, tests, bounds>>

\* The context ends by timeout or signal: exit 4 or 8, and a cancel marker,
\* whose write may fail unnoticed.
Cancel(r) ==
    /\ client[r] = "waiting"
    /\ client' = [client EXCEPT ![r] = "abandoned"]
    /\ \/ marker' = [marker EXCEPT ![r] = "possibly_started"] /\ UNCHANGED faults
       \/ Spend(1) /\ UNCHANGED marker
    /\ UNCHANGED <<request, response, tombstone, pending, xml, hand, editor, tests, reloads, foreigns>>

ClientKilled(r) ==
    /\ client[r] = "waiting"
    /\ client' = [client EXCEPT ![r] = "killed"]
    /\ UNCHANGED <<files, hand, editor, tests, bounds>>

-----------------------------------------------------------------------------
(* BridgeServer: how a claimed run ends *)

\* Mutant: what a cancellation knows of the job is not looked at.
MayHaveStartedUncancelled(s) == s.phase \in {"running", "completing"}

\* ExecutionMayHaveStarted
MayHaveStarted(s) ==
    \/ s.phase \in {"running", "completing"}
    \/ s.phase = "cancelling" /\ (s.guid \/ s.probe)
Execution(may) == IF may THEN "possibly_started" ELSE "not_started"

\* BeginCancellation on the claimed run: a cancellation already under way only
\* becomes stricter.
BeginMisnamed(s, grace, only, probe) == [s EXCEPT !.phase = "canceling"]

Begin(s, grace, only, probe) ==
    IF s.run = None THEN s
    ELSE IF s.phase = "cancelling" THEN [s EXCEPT !.only = @ \/ only, !.probe = @ \/ probe]
    ELSE [s EXCEPT !.phase = "cancelling", !.count = 0, !.only = only,
                   !.probe = probe, !.grace = grace]

\* EnsureCancellationMarker leaves a marker alone that is there already.
Marked(s) ==
    IF s.run = None \/ marker[s.run] # None THEN marker
    ELSE [marker EXCEPT ![s.run] = Execution(MayHaveStarted(s))]

BeginCancellation(grace, only, probe, n) ==
    LET s == Begin(slot, grace, only, probe) IN
    /\ slot' = s
    /\ observer' = "none"
    /\ \/ Spend(n) /\ marker' = Marked(s)
       \/ Spend(n + 1) /\ UNCHANGED marker

\* WriteTombstone keeps a tombstone that is there already.
Entombed(r, may) ==
    [tombstone EXCEPT ![r] = IF @ = None THEN [state |-> Execution(may), session |-> session] ELSE @]

\* TryWriteTerminal: the response, or if that fails a tombstone, or neither.
Terminal(r, outcome, may, n, next, neither, mark) ==
    \/ /\ Spend(n)
       /\ response' = [response EXCEPT ![r] = [outcome |-> outcome, session |-> session]]
       /\ slot' = next /\ marker' = mark
       /\ UNCHANGED tombstone
    \/ /\ Spend(n + 1)
       /\ tombstone' = Entombed(r, may)
       /\ slot' = next /\ marker' = mark
       /\ UNCHANGED response
    \/ /\ Spend(n + 1)
       /\ slot' = neither
       /\ marker' \in {mark, IF mark = marker THEN Marked(neither) ELSE mark}
       /\ UNCHANGED <<response, tombstone>>

\* FinishTerminal: what may have started is not rejected but indeterminate; if
\* nothing could be written the request stays claimed.
FinishTerminal(s, r, outcome, started, n, mark) ==
    LET may == started \/ MayHaveStarted(s)
        told == IF may /\ outcome = "rejected" THEN "indeterminate" ELSE outcome
    IN Terminal(r, told, may, n, NoSlot, Begin(s, FALSE, TRUE, FALSE), mark)

\* The end of a cancellation: a tombstone alone for a client that has gone.
SealCancelled(s, n, mark) ==
    IF s.only
    THEN /\ UNCHANGED response /\ marker' = mark
         /\ \/ Spend(n) /\ tombstone' = Entombed(s.run, MayHaveStarted(s)) /\ slot' = NoSlot
            \/ Spend(n + 1) /\ slot' = s /\ UNCHANGED tombstone
    ELSE FinishTerminal(s, s.run, "rejected", FALSE, n, mark)

\* Mutant: one inactive observation is enough.
ConfirmationsOnce == 1
Confirmations == 2

\* The cleanup frame of a job is over before the bridge observes it twice.
FrameOver(s) == ~(s.count = 1 /\ job[s.run] = "cleanup")

\* AdvanceCancelling on the slot s, after n faults of the same update. The
\* marker is there or is written first; without a job that could be active the
\* request is sealed, otherwise the grace is waited for, and then two inactive
\* observations in a row.
AdvanceCancelling(s, n) ==
    LET r == s.run
        mark == Marked(s)
        active == IF s.guid THEN Busy(r) ELSE AnyBusy IN
    /\ s.phase = "cancelling"
    /\ observer' = "none"
    /\ \/ /\ marker[r] = None /\ Spend(n + 1)
          /\ slot' = s
          /\ UNCHANGED <<response, tombstone, marker>>
       \/ /\ ~s.guid /\ ~s.probe
          /\ SealCancelled(s, n, mark)
       \/ /\ s.guid \/ s.probe
          /\ s.grace
          /\ Spend(n) /\ slot' = s /\ marker' = mark
          /\ UNCHANGED <<response, tombstone>>
       \/ /\ s.guid \/ s.probe
          /\ ~s.grace
          /\ \/ Spend(n + 1)
             \/ active /\ Spend(n)
          /\ slot' = [s EXCEPT !.count = 0] /\ marker' = mark
          /\ UNCHANGED <<response, tombstone>>
       \/ /\ s.guid \/ s.probe
          /\ ~s.grace /\ ~active /\ FrameOver(s)
          /\ IF s.count + 1 < Confirmations
             THEN /\ Spend(n) /\ slot' = [s EXCEPT !.count = @ + 1] /\ marker' = mark
                  /\ UNCHANGED <<response, tombstone>>
             ELSE SealCancelled(s, n, mark)
    /\ UNCHANGED <<request, pending, xml, hand, client, session, sessions, tests, reloads, foreigns>>

-----------------------------------------------------------------------------
(* BridgeServer.Pump *)

Serving == session # 0

\* ClaimNextRequest passes over what is answered or sealed, seals what an
\* earlier session has left or a client has cancelled, rejects what names
\* another session, and claims the rest.
Unclaimed(r) ==
    /\ Serving /\ slot.run = None
    /\ request[r] # 0 /\ response[r] = None /\ tombstone[r] = None

SealUnclaimed(r) ==
    /\ Unclaimed(r) /\ (pending[r] \/ marker[r] # None)
    /\ tombstone' = Entombed(r, pending[r] \/ marker[r] # "not_started")
    /\ UNCHANGED <<request, response, marker, pending, xml, hand, client, editor, tests, bounds>>

RejectUnclaimed(r) ==
    /\ Unclaimed(r) /\ ~pending[r] /\ marker[r] = None /\ request[r] # session
    /\ Terminal(r, "rejected", FALSE, 0, slot, slot, marker)
    /\ UNCHANGED <<request, pending, xml, hand, client, session, sessions, observer, tests, reloads, foreigns>>

Claim(r) ==
    /\ Unclaimed(r) /\ ~pending[r] /\ marker[r] = None /\ request[r] = session
    /\ slot' = [NoSlot EXCEPT !.run = r, !.phase = "new"]
    /\ UNCHANGED <<files, hand, client, session, sessions, observer, tests, bounds>>

Claimed(phase) == Serving /\ slot.phase = phase
Unanswered == slot.run # None /\ marker[slot.run] = None
OwnsJob == slot.phase \in {"running", "completing"}

\* Mutant: a cancel marker is only looked for before the run has started.
CancelMarkedEarly ==
    /\ Serving /\ slot.phase \in {"new", "refreshing"} /\ marker[slot.run] # None
    /\ AdvanceCancelling(Begin(slot, FALSE, TRUE, OwnsJob), 0)

\* A cancel marker always enters the cancelling phase, in the same update.
CancelMarked ==
    /\ Serving /\ slot.run # None /\ slot.phase # "cancelling" /\ marker[slot.run] # None
    /\ AdvanceCancelling(Begin(slot, FALSE, TRUE, OwnsJob), 0)

\* The request cannot be read any more.
CancelUnread ==
    /\ Serving /\ Unanswered /\ slot.phase # "cancelling"
    /\ AdvanceCancelling(Begin(slot, FALSE, TRUE, OwnsJob), 1)

Cancelling == Serving /\ AdvanceCancelling(slot, 0)

Refuse(outcomes) ==
    /\ \E o \in outcomes : FinishTerminal(slot, slot.run, o, FALSE, 0, marker)
    /\ UNCHANGED <<request, pending, xml, hand, client, session, sessions, observer, tests, reloads, foreigns>>

\* AdvanceNew: the Pristine Gate refuses, waits until the deadline passes, or
\* lets AssetDatabase.Refresh begin, when no test run is known to be active.
RefuseNew == Claimed("new") /\ Unanswered /\ Refuse({"rejected", "busy"})

Refresh ==
    /\ Claimed("new") /\ Unanswered /\ ~AnyBusy
    /\ slot' = [slot EXCEPT !.phase = "refreshing"]
    /\ UNCHANGED <<files, hand, client, session, sessions, observer, tests, bounds>>

\* AdvanceRefreshing: compilation does not settle, fails, or was failing; Play
\* Mode or another test run has begun meanwhile.
RefuseRefreshed ==
    Claimed("refreshing") /\ Unanswered /\ Refuse({"rejected", "busy", "compile_failed"})

\* StartRun: the phase is running before Execute is called; Execute returns the
\* GUID of its job or throws, with or without a job.
StartRun ==
    LET r == slot.run
        running == [slot EXCEPT !.phase = "running"] IN
    /\ Claimed("refreshing") /\ Unanswered /\ ~AnyBusy
    /\ \/ /\ slot' = [running EXCEPT !.guid = TRUE]
          /\ observer' = "new"
          /\ job' = [job EXCEPT ![r] = "queued"]
          /\ executed' = [executed EXCEPT ![r] = @ + 1]
          /\ UNCHANGED <<marker, faults>>
       \/ /\ slot' = Begin(running, TRUE, FALSE, TRUE)
          /\ observer' = "none"
          /\ Spend(1)
          /\ marker' = Marked(Begin(running, TRUE, FALSE, TRUE))
          /\ \/ UNCHANGED <<job, executed>>
             \/ /\ job' = [job EXCEPT ![r] = "queued"]
                /\ executed' = [executed EXCEPT ![r] = @ + 1]
    /\ UNCHANGED <<request, response, tombstone, pending, xml, hand, client, session,
                   sessions, foreign, restoring, failed, reloads, foreigns>>

\* AdvanceCompleting: the pending response becomes public after two inactive
\* observations in a row.
ObserveCompletion ==
    LET r == slot.run IN
    /\ Claimed("completing") /\ Unanswered
    /\ \/ Busy(r) /\ slot' = [slot EXCEPT !.count = 0]
       \/ /\ ~Busy(r) /\ FrameOver(slot) /\ slot.count + 1 < Confirmations
          /\ slot' = [slot EXCEPT !.count = @ + 1]
    /\ UNCHANGED <<files, hand, client, session, sessions, observer, tests, bounds>>

\* PublishCompletedResponse: the run is released, idle is announced, then the
\* response is written and the pending one deleted. What fails before, with
\* the run still claimed or already released, leaves it possibly started.
Publish ==
    LET r == slot.run IN
    /\ Claimed("completing") /\ Unanswered
    /\ ~Busy(r) /\ FrameOver(slot) /\ slot.count + 1 >= Confirmations
    /\ \/ /\ slot' = NoSlot /\ observer' = "none"
          /\ hand' = [session |-> session, idle |-> TRUE]
          /\ response' = [response EXCEPT ![r] = [outcome |-> "completed", session |-> session]]
          /\ \/ pending' = [pending EXCEPT ![r] = FALSE] /\ UNCHANGED faults
             \/ Spend(1) /\ UNCHANGED pending
          /\ UNCHANGED <<tombstone, marker>>
       \/ /\ \/ /\ FinishTerminal(NoSlot, r, "rejected", TRUE, 1, marker)
                /\ observer' = "none"
                /\ hand' = [session |-> session, idle |-> TRUE]
             \/ /\ FinishTerminal([slot EXCEPT !.count = @ + 1], r, "rejected", TRUE, 1, marker)
                /\ observer' = (IF slot'.run = None THEN observer ELSE "none")
                /\ UNCHANGED hand
          /\ UNCHANGED pending
    /\ UNCHANGED <<request, xml, client, session, sessions, tests, reloads, foreigns>>

Heartbeat ==
    /\ Serving
    /\ hand' = [session |-> session, idle |-> slot.run = None /\ ~AnyBusy]
    /\ UNCHANGED <<files, client, editor, tests, bounds>>

-----------------------------------------------------------------------------
(* TestRunController: the callbacks of the Test Framework are global *)

\* The files, the slot and the observer after RunStarted, RunFinished, OnError.
OnRunStarted ==
    /\ CASE observer = "new" -> observer' = "started" /\ UNCHANGED <<slot, marker, faults>>
         [] observer = "started" -> BeginCancellation(FALSE, FALSE, TRUE, 0)
         [] OTHER -> UNCHANGED <<observer, slot, marker, faults>>
    /\ UNCHANGED <<xml, pending>>

\* RunFinished after exactly one RunStarted writes results.xml and the pending
\* response, or cancels if that fails.
OnRunFinished(origin) ==
    CASE observer = "new" ->
            BeginCancellation(FALSE, FALSE, TRUE, 0) /\ UNCHANGED <<xml, pending>>
      [] observer = "started" ->
            \/ /\ xml' = [xml EXCEPT ![slot.run] = origin]
               /\ pending' = [pending EXCEPT ![slot.run] = TRUE]
               /\ observer' = "finished"
               /\ slot' = [slot EXCEPT !.phase = "completing", !.count = 0]
               /\ UNCHANGED <<marker, faults>>
            \/ /\ BeginCancellation(FALSE, FALSE, TRUE, 1)
               /\ xml' \in {xml, [xml EXCEPT ![slot.run] = origin]}
               /\ UNCHANGED pending
      [] OTHER -> UNCHANGED <<observer, slot, marker, faults, xml, pending>>

OnError ==
    /\ IF observer = "none" THEN UNCHANGED <<observer, slot, marker, faults>>
       ELSE BeginCancellation(FALSE, FALSE, TRUE, 0)
    /\ UNCHANGED <<xml, pending>>

Callback == UNCHANGED <<request, response, tombstone, hand, client, session, sessions,
                        restoring, executed, reloads>>

JobStarts(r) ==
    /\ Busy(r) /\ job[r] = "queued"
    /\ job' = [job EXCEPT ![r] = "started"]
    /\ OnRunStarted
    /\ Callback /\ UNCHANGED <<foreign, failed, foreigns>>

JobFinishes(r) ==
    /\ Busy(r) /\ job[r] = "started"
    /\ job' = [job EXCEPT ![r] = "finished"]
    /\ OnRunFinished("own")
    /\ Callback /\ UNCHANGED <<foreign, failed, foreigns>>

\* A job ends without RunFinished on some error paths, or is cancelled.
JobVanishes(r) ==
    /\ Busy(r) /\ job[r] # "finished"
    /\ job' = [job EXCEPT ![r] = "none"]
    /\ UNCHANGED <<files, hand, client, editor, foreign, restoring, executed, failed, bounds>>

\* After RunFinished the job is cleaned up, and gone a frame later.
JobCleans(r) ==
    /\ ~restoring /\ job[r] \in {"finished", "cleanup"}
    /\ job' = [job EXCEPT ![r] = IF @ = "finished" THEN "cleanup" ELSE "none"]
    /\ UNCHANGED <<files, hand, client, editor, foreign, restoring, executed, failed, bounds>>

JobFails(r) ==
    /\ ~restoring /\ job[r] # "none" /\ ~failed[r]
    /\ failed' = [failed EXCEPT ![r] = TRUE]
    /\ OnError
    /\ Callback /\ UNCHANGED <<job, foreign, foreigns>>

ForeignQueued ==
    /\ Serving /\ foreign = "none" /\ foreigns < MaxForeign
    /\ foreign' = "queued" /\ foreigns' = foreigns + 1
    /\ UNCHANGED <<files, hand, client, editor, job, restoring, executed, failed, reloads, faults>>

ForeignStarts ==
    /\ ~restoring /\ foreign = "queued"
    /\ foreign' = "started"
    /\ OnRunStarted
    /\ Callback /\ UNCHANGED <<job, failed, foreigns>>

ForeignFinishes ==
    /\ ~restoring /\ foreign = "started"
    /\ foreign' = "none"
    /\ OnRunFinished("foreign")
    /\ Callback /\ UNCHANGED <<job, failed, foreigns>>

-----------------------------------------------------------------------------
(* The editor process *)

\* A domain reload loses the observer; BridgeServer.Start then cancels a run
\* that was running or completing. The Test Framework restores its jobs later.
DomainReload ==
    /\ Serving /\ reloads < MaxReloads /\ reloads' = reloads + 1
    /\ restoring' = (foreign # "none" \/ \E r \in Runs : job[r] # "none")
    /\ IF OwnsJob
       THEN BeginCancellation(TRUE, FALSE, TRUE, 0)
       ELSE observer' = "none" /\ UNCHANGED <<slot, marker, faults>>
    /\ UNCHANGED <<request, response, tombstone, pending, xml, hand, client, session, sessions,
                   job, foreign, executed, failed, foreigns>>

\* The jobs go on, or were lost.
Restored ==
    /\ restoring /\ restoring' = FALSE
    /\ \/ UNCHANGED <<job, foreign>>
       \/ job' = [r \in Runs |-> "none"] /\ foreign' = "none"
    /\ UNCHANGED <<files, hand, client, editor, executed, failed, bounds>>

\* DomainReloadCancelGraceMs is longer than the registry takes.
GraceElapses ==
    /\ slot.grace /\ ~restoring
    /\ slot' = [slot EXCEPT !.grace = FALSE]
    /\ UNCHANGED <<files, hand, client, session, sessions, observer, tests, bounds>>

\* The editor ends, and SessionState with it; its files stay.
EditorEnds ==
    /\ Serving
    /\ session' = 0 /\ slot' = NoSlot /\ observer' = "none"
    /\ job' = [r \in Runs |-> "none"] /\ foreign' = "none" /\ restoring' = FALSE
    /\ UNCHANGED <<files, hand, client, sessions, executed, failed, bounds>>

EditorStarts ==
    /\ session = 0 /\ sessions < MaxSessions
    /\ sessions' = sessions + 1 /\ session' = sessions + 1
    /\ UNCHANGED <<files, hand, client, slot, observer, tests, bounds>>

\* DefaultStaleWindow passes without a heartbeat.
HandshakeExpires ==
    /\ hand.session # 0 /\ hand.session # session
    /\ hand' = [session |-> 0, idle |-> FALSE]
    /\ UNCHANGED <<files, client, editor, tests, bounds>>

-----------------------------------------------------------------------------
Pump ==
    \/ \E r \in Runs : SealUnclaimed(r) \/ RejectUnclaimed(r) \/ Claim(r)
    \/ CancelMarked \/ CancelUnread \/ Cancelling
    \/ RefuseNew \/ Refresh \/ RefuseRefreshed \/ StartRun
    \/ ObserveCompletion \/ Publish

Job(r) == JobStarts(r) \/ JobFinishes(r) \/ JobVanishes(r) \/ JobCleans(r)
Foreign == ForeignStarts \/ ForeignFinishes

Next ==
    \/ \E r \in Runs :
          \/ Submit(r) \/ Poll(r) \/ Cancel(r) \/ ClientKilled(r)
          \/ Job(r) \/ JobFails(r)
    \/ Pump \/ Heartbeat
    \/ ForeignQueued \/ Foreign
    \/ DomainReload \/ Restored \/ GraceElapses
    \/ EditorEnds \/ EditorStarts \/ HandshakeExpires

Spec == Init /\ [][Next]_vars

\* EditorApplication.update runs in every frame, the tests of a job and the
\* grace end, and so does the context of a testplay run (timeout.total_ms).
Fairness ==
    /\ WF_vars(Pump) /\ WF_vars(Restored) /\ WF_vars(GraceElapses) /\ WF_vars(Foreign)
    /\ \A r \in Runs : WF_vars(Job(r)) /\ WF_vars(Cancel(r))

FairSpec == Spec /\ Fairness

-----------------------------------------------------------------------------
(* Properties *)

\* The bridge implements WarmRequest: whatever is lost, reloaded, restarted or
\* cancelled, the tests of a run are executed at most once, and testplay runs
\* them cold, or reports compile errors, only if the editor never executes them.
Answer(c) == IF c \in {"start", "waiting"} THEN "open" ELSE IF c = "killed" THEN "abandoned" ELSE c
Once == INSTANCE WarmRequest WITH verdict <- [r \in Runs |-> Answer(client[r])]
ExecutedOnce == Once!Spec

\* A run whose cleanup reported an error is not published as completed: the
\* two inactive observations cover the cleanup frame after RunFinished.
CompletedIsClean ==
    \A r \in Runs : response[r] # None /\ response[r].outcome = "completed" => ~failed[r]

\* The editor does not keep a request claimed for ever. It may if the Test
\* Framework ended the job without a callback and nobody cancels any more.
Abandoned(r) == slot.phase = "running" /\ job[r] = "none" /\ client[r] # "waiting" /\ marker[r] = None
EditorFrees == \A r \in Runs : slot.run = r ~> (slot.run # r \/ Abandoned(r))

\* "Foreign human or package-initiated runs cannot complete a testplay request."
ForeignNeverCompletes == \A r \in Runs : client[r] = "result" => xml[r] = "own"
=============================================================================
