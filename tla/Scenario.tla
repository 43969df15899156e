------------------------------ MODULE Scenario ------------------------------
(***************************************************************************)
(* The scenario runner: testplay run --scenario loads a file of instances, *)
(* runs each in a goroutine of its own and reports the most severe exit    *)
(* code.  An instance may depend on another one: it waits until the other  *)
(* has written the phase it was told to wait for, unless that one ends     *)
(* first, the wait times out or the scenario is cancelled.  The instances  *)
(* talk over a bus file that a polling reader of each one tails.           *)
(*                                                                         *)
(* The run of an instance is the run service; here it is the sequence of   *)
(* status phases it writes and the exit code it returns.                   *)
(***************************************************************************)
EXTENDS Naturals, Sequences, SequencesExt, FiniteSets

CONSTANTS
    Roles,         \* the roles of the scenario
    NoRole,        \* no depends_on
    Files,         \* the scenario files considered: functions on sets of roles
    BusFiles,      \* those of them whose bus directory can be made
    Codes,         \* the exit codes of the runs considered
    MaxMessages    \* bound: the lines written to the bus

RunPhases == {"compiling", "running", "done", "timeout_total"}
Targets == {"", "compiling", "running", "done"}     \* validPhaseTarget
InstanceSpec == [dep: Roles \union {NoRole, "unknown"}, depPhase: Targets,
                 readyPhase: Targets, twoPhase: BOOLEAN]

ASSUME ScenarioAssumption ==
    /\ NoRole \notin Roles /\ "unknown" \notin Roles
    /\ \A f \in Files : DOMAIN f \subseteq Roles /\ \A r \in DOMAIN f : f[r] \in InstanceSpec
    /\ BusFiles \subseteq Files
    /\ Codes \subseteq Nat
    /\ MaxMessages \in Nat

-----------------------------------------------------------------------------
(* The scenario file *)

EffectiveReadyPhase(inst) ==
    IF inst.readyPhase = "" THEN "compiling" ELSE inst.readyPhase

DependencyPhase(f, r) ==
    IF f[r].depPhase # "" THEN f[r].depPhase ELSE EffectiveReadyPhase(f[f[r].dep])

SignalPhase(f, r) ==
    LET asking == {c \in DOMAIN f : f[c].dep = r /\ f[c].depPhase # ""} IN
    IF f[r].readyPhase # "" \/ asking = {} THEN EffectiveReadyPhase(f[r])
    ELSE f[CHOOSE c \in asking : TRUE].depPhase

\* Bug: only an instance that depends on itself is refused.
AcyclicSelf(f) == \A r \in DOMAIN f : f[r].dep # r

\* Following depends_on never comes back: no set of roles depends on itself.
Acyclic(f) ==
    \A S \in (SUBSET DOMAIN f) \ {{}} : \E r \in S : f[r].dep \notin S

PhasesAgree(f) ==
    \A r \in DOMAIN f : f[r].dep # NoRole =>
        LET d == f[r].dep IN
        /\ f[d].readyPhase # "" /\ f[r].depPhase # "" => f[d].readyPhase = f[r].depPhase
        /\ \A c \in DOMAIN f : f[c].dep = d => DependencyPhase(f, c) = DependencyPhase(f, r)

\* "running" is written by two-phase runs only.
ValidSignalPhases(f) ==
    \A r \in DOMAIN f : f[r].dep # NoRole /\ DependencyPhase(f, r) = "running"
                        => f[f[r].dep].twoPhase

Loads(f) ==
    /\ DOMAIN f # {}
    /\ \A r \in DOMAIN f : f[r].dep \in (DOMAIN f \ {r}) \union {NoRole}
    /\ PhasesAgree(f)
    /\ Acyclic(f)
    /\ ValidSignalPhases(f)

-----------------------------------------------------------------------------
VARIABLES
    scenario,   \* the scenario file
    command,    \* the command: loading, started, reported or rejected
    ipc,        \* the bus directory could be made: ipcBusPath is not empty
    cancelled,  \* the scenario's context is done: its timeout or a signal
    stage,      \* where the goroutine of each role is
    log,        \* the phases each instance has written
    ready,      \* readyCh is closed
    done,       \* doneCh is closed
    verdict,    \* the outcome about to be recorded
    results,    \* results[i], NoOutcome before it is written
    orchErrs,   \* the orchestrator errors
    exitCode,   \* the scenario's exit code
    bus,        \* the lines of the bus file
    reader,     \* the polling reader of each role: off, on or stopped
    offset,     \* the lines each reader has consumed
    ipcEvents,  \* the events accumulated: positions of lines on the bus
    skipped     \* lines a reader met half-written and so never emitted

runVars == <<stage, log, ready, done, verdict, results, orchErrs>>
busVars == <<bus, reader, offset, ipcEvents, skipped>>
scenarioVars == <<scenario, ipc, command, cancelled, runVars, exitCode, busVars>>

NoOutcome == [code |-> 0, err |-> FALSE, why |-> "none"]
Outcome(code, err, why) == [code |-> code, err |-> err, why |-> why]
Outcomes == [code: Codes \union {0, 1, 4, 7}, err: BOOLEAN,
             why: {"none", "run", "fastfail", "timeout", "cancelled"}]
InstanceStages == {"idle", "waiting", "running", "stopping", "recorded", "finished"}
Line == [from: Roles, to: Roles, whole: BOOLEAN]

ScenarioTypeOK ==
    /\ scenario \in Files
    /\ command \in {"loading", "started", "reported", "rejected"}
    /\ ipc \in BOOLEAN /\ cancelled \in BOOLEAN
    /\ stage \in [Roles -> InstanceStages]
    /\ log \in [Roles -> Seq(RunPhases)]
    /\ ready \in [Roles -> BOOLEAN] /\ done \in [Roles -> BOOLEAN]
    /\ verdict \in [Roles -> Outcomes] /\ results \in [Roles -> Outcomes]
    /\ \A e \in orchErrs : e.role \in Roles /\ e.dep \in Roles
    /\ exitCode \in Nat
    /\ bus \in Seq(Line) /\ Len(bus) <= MaxMessages
    /\ reader \in [Roles -> {"off", "on", "stopped"}]
    /\ offset \in [Roles -> 0..MaxMessages]
    /\ ipcEvents \in [Roles -> Seq(1..MaxMessages)]
    /\ skipped \in [Roles -> SUBSET (1..MaxMessages)]

\* Preparing the bus directory may fail: the scenario then runs without a bus.
BusOutcomes(f) == {made \in BOOLEAN : made => f \in BusFiles}

ScenarioInit ==
    /\ scenario \in Files
    /\ ipc \in BusOutcomes(scenario)
    /\ command = "loading" /\ cancelled = FALSE /\ exitCode = 0
    /\ stage = [r \in Roles |-> "idle"]
    /\ log = [r \in Roles |-> <<>>]
    /\ ready = [r \in Roles |-> FALSE] /\ done = [r \in Roles |-> FALSE]
    /\ verdict = [r \in Roles |-> NoOutcome] /\ results = [r \in Roles |-> NoOutcome]
    /\ orchErrs = {}
    /\ bus = <<>>
    /\ reader = [r \in Roles |-> "off"]
    /\ offset = [r \in Roles |-> 0]
    /\ ipcEvents = [r \in Roles |-> <<>>]
    /\ skipped = [r \in Roles |-> {}]

\* runScenario: a file that does not load ends the command with exit 5.
Load ==
    /\ command = "loading"
    /\ IF Loads(scenario) THEN command' = "started" /\ UNCHANGED exitCode
                          ELSE command' = "rejected" /\ exitCode' = 5
    /\ UNCHANGED <<scenario, ipc, cancelled, runVars, busVars>>

\* The scenario's timeout (the sum of its instances') or a signal.
Cancel ==
    /\ command = "started" /\ ~cancelled
    /\ cancelled' = TRUE
    /\ UNCHANGED <<scenario, ipc, command, runVars, exitCode, busVars>>

-----------------------------------------------------------------------------
(* The goroutine of an instance *)

\* The reader starts before the wait.
Start(r) ==
    /\ command = "started" /\ stage[r] = "idle"
    /\ reader' = [reader EXCEPT ![r] = IF ipc THEN "on" ELSE "off"]
    /\ stage' = [stage EXCEPT ![r] = IF scenario[r].dep = NoRole THEN "running" ELSE "waiting"]
    /\ UNCHANGED <<scenario, ipc, command, cancelled, log, ready, done, verdict, results,
                   orchErrs, exitCode, bus, offset, ipcEvents, skipped>>

Stop(r, outcome) ==
    /\ stage' = [stage EXCEPT ![r] = "stopping"]
    /\ verdict' = [verdict EXCEPT ![r] = outcome]
    /\ UNCHANGED <<scenario, ipc, command, cancelled, log, ready, done, results,
                   orchErrs, exitCode, busVars>>

RunInstance(r) ==
    /\ stage' = [stage EXCEPT ![r] = "running"]
    /\ UNCHANGED <<scenario, ipc, command, cancelled, log, ready, done, verdict, results,
                   orchErrs, exitCode, busVars>>

SeesReady(r) == stage[r] = "waiting" /\ ready[scenario[r].dep] /\ RunInstance(r)

\* Bug: readyCh is not read again once doneCh was seen.
SeesDoneOnce(r) ==
    stage[r] = "waiting" /\ done[scenario[r].dep] /\ Stop(r, Outcome(4, FALSE, "fastfail"))

\* select picks at random among the channels that are ready: a dependency
\* that has ended may have signalled before, so readyCh is read again.
SeesDone(r) ==
    /\ stage[r] = "waiting" /\ done[scenario[r].dep]
    /\ IF ready[scenario[r].dep] THEN RunInstance(r) ELSE Stop(r, Outcome(4, FALSE, "fastfail"))

SeesTimeout(r) == stage[r] = "waiting" /\ Stop(r, Outcome(4, FALSE, "timeout"))

SeesCancel(r) == stage[r] = "waiting" /\ cancelled /\ Stop(r, Outcome(0, TRUE, "cancelled"))

\* The phases a run can write after these: the service writes compiling, prepares
\* the workspace, and the executor writes compiling again, running between the
\* invocations of a two-phase run, and a last one.
PhasesAfter(written, twoPhase) ==
    IF written \in {<<>>, <<"compiling">>} THEN {"compiling"}
    ELSE IF written = <<"compiling", "compiling">>
    THEN {"done", "timeout_total"} \union (IF twoPhase THEN {"running"} ELSE {})
    ELSE IF Len(written) = 3 /\ Last(written) = "running" THEN {"done", "timeout_total"}
    ELSE {}

NextPhases(r) == PhasesAfter(log[r], scenario[r].twoPhase)

\* The notifier closes readyCh at the first write of the signal phase.
Write(r) ==
    /\ stage[r] = "running"
    /\ \E p \in NextPhases(r) :
        /\ log' = [log EXCEPT ![r] = Append(@, p)]
        /\ ready' = [ready EXCEPT ![r] = @ \/ p = SignalPhase(scenario, r)]
    /\ UNCHANGED <<scenario, ipc, command, cancelled, stage, done, verdict, results,
                   orchErrs, exitCode, busVars>>

\* What a run that has written these may return: an error before the executor has
\* started (no artifact directory, no workspace; 7 when permission was denied), exit 2
\* without a terminal status when the results do not parse, else by the terminal
\* status.
OutcomesAfter(written) ==
    IF written = <<>> THEN {Outcome(0, TRUE, "run")}
    ELSE IF written = <<"compiling">> THEN {Outcome(0, TRUE, "run"), Outcome(7, TRUE, "run")}
    ELSE {Outcome(c, FALSE, "run") : c \in Codes \intersect
             (IF Last(written) = "done" THEN {0, 1, 2, 3, 6, 9, 10}
              ELSE IF Last(written) = "timeout_total" THEN {4, 8, 9}
              ELSE {2, 9})}

Returned(r) == OutcomesAfter(log[r])

Return(r) ==
    /\ stage[r] = "running"
    /\ \E outcome \in Returned(r) : Stop(r, outcome)

\* snapshotIpc has stopped the reader; then the orchestrator error and the
\* result are recorded.
LastReceivedFrom(r, d) ==
    LET heard == {k \in DOMAIN ipcEvents[r] : bus[ipcEvents[r][k]].from = d} IN
    IF heard = {} THEN 0 ELSE ipcEvents[r][Max(heard)]

Record(r) ==
    /\ stage[r] = "stopping" /\ reader[r] # "on"
    /\ results' = [results EXCEPT ![r] = verdict[r]]
    /\ orchErrs' = IF verdict[r].why \in {"fastfail", "timeout"}
                   THEN orchErrs \union
                        {[role |-> r, dep |-> scenario[r].dep, why |-> verdict[r].why,
                          found |-> results[scenario[r].dep],
                          heard |-> LastReceivedFrom(r, scenario[r].dep)]}
                   ELSE orchErrs
    /\ stage' = [stage EXCEPT ![r] = "recorded"]
    /\ UNCHANGED <<scenario, ipc, command, cancelled, log, ready, done, verdict,
                   exitCode, busVars>>

\* The deferred close of doneCh.
CloseDone(r) ==
    /\ stage[r] = "recorded"
    /\ done' = [done EXCEPT ![r] = TRUE]
    /\ stage' = [stage EXCEPT ![r] = "finished"]
    /\ UNCHANGED <<scenario, ipc, command, cancelled, log, ready, verdict, results,
                   orchErrs, exitCode, busVars>>

-----------------------------------------------------------------------------
(* The bus *)

\* A line is appended by one write, or by two when it is long.
Send(r) ==
    /\ stage[r] = "running" /\ ipc /\ Len(log[r]) >= 2
    /\ Len(bus) < MaxMessages
    /\ bus # <<>> => Last(bus).whole
    /\ \E to \in DOMAIN scenario, whole \in BOOLEAN :
          bus' = Append(bus, [from |-> r, to |-> to, whole |-> whole])
    /\ UNCHANGED <<scenario, ipc, command, cancelled, runVars, exitCode, reader, offset,
                   ipcEvents, skipped>>

SendRest(r) ==
    /\ stage[r] = "running"
    /\ bus # <<>> /\ Last(bus).from = r /\ ~Last(bus).whole
    /\ bus' = [bus EXCEPT ![Len(bus)].whole = TRUE]
    /\ UNCHANGED <<scenario, ipc, command, cancelled, runVars, exitCode, reader, offset,
                   ipcEvents, skipped>>

\* The lines at these positions, in the order of the bus.
InOrder(S) ==
    CHOOSE s \in [1..Cardinality(S) -> S] : \A i, j \in DOMAIN s : i < j => s[i] < s[j]

\* classify: a reader emits the lines its role sends and receives.
Visible(r, line) == line.from = r \/ line.to = r

\* Bug: the newline of the last line is counted twice.
ReadSinceFar(r) ==
    LET new == offset[r] + 1 .. Len(bus)
        emitted == InOrder({i \in new : bus[i].whole /\ Visible(r, bus[i])}) IN
    /\ offset' = [offset EXCEPT ![r] = IF new = {} THEN @ ELSE Len(bus) + 1]
    /\ ipcEvents' = [ipcEvents EXCEPT ![r] = @ \o emitted]
    /\ skipped' = [skipped EXCEPT ![r] = @ \union {i \in new : ~bus[i].whole}]

\* readSince: every line after the offset, the unfinished last one included,
\* which does not parse and is passed over.
ReadSince(r) ==
    LET new == offset[r] + 1 .. Len(bus)
        emitted == InOrder({i \in new : bus[i].whole /\ Visible(r, bus[i])}) IN
    /\ offset' = [offset EXCEPT ![r] = Len(bus)]
    /\ ipcEvents' = [ipcEvents EXCEPT ![r] = @ \o emitted]
    /\ skipped' = [skipped EXCEPT ![r] = @ \union {i \in new : ~bus[i].whole}]

Poll(r) ==
    /\ reader[r] = "on" /\ offset[r] < Len(bus)
    /\ ReadSince(r)
    /\ UNCHANGED <<scenario, ipc, command, cancelled, runVars, exitCode, bus, reader>>

\* Bug: no drain after the context is done.
StopReaderAtOnce(r) ==
    /\ reader[r] = "on" /\ (stage[r] = "stopping" \/ cancelled)
    /\ reader' = [reader EXCEPT ![r] = "stopped"]
    /\ UNCHANGED <<scenario, ipc, command, cancelled, runVars, exitCode, bus, offset,
                   ipcEvents, skipped>>

\* The reader's context is done: its owner takes the snapshot, or the
\* scenario was cancelled.  It drains the bus once more.
StopReader(r) ==
    /\ reader[r] = "on" /\ (stage[r] = "stopping" \/ cancelled)
    /\ ReadSince(r)
    /\ reader' = [reader EXCEPT ![r] = "stopped"]
    /\ UNCHANGED <<scenario, ipc, command, cancelled, runVars, exitCode, bus>>

-----------------------------------------------------------------------------
(* The report *)

EffectiveCode(result) == IF result.err /\ result.code = 0 THEN 1 ELSE result.code

ExitCodeSeverity(code) ==
    CASE code = 0 -> 0
      [] code = 10 -> 1
      [] code \in 1..9 -> 10 + code
      [] OTHER -> 100

AggregateExitCode ==
    LET codes == {EffectiveCode(results[r]) : r \in DOMAIN scenario} IN
    CHOOSE c \in codes : \A d \in codes : ExitCodeSeverity(d) <= ExitCodeSeverity(c)

ReportScenario ==
    /\ command = "started" /\ \A r \in DOMAIN scenario : stage[r] = "finished"
    /\ command' = "reported"
    /\ exitCode' = AggregateExitCode
    /\ UNCHANGED <<scenario, ipc, cancelled, runVars, busVars>>

Instance(r) ==
    \/ Start(r) \/ SeesReady(r) \/ SeesDone(r) \/ SeesCancel(r)
    \/ Write(r) \/ Return(r) \/ Record(r) \/ CloseDone(r)

ScenarioNext ==
    \/ Load \/ Cancel \/ ReportScenario
    \/ \E r \in DOMAIN scenario :
        \/ Start(r) \/ SeesReady(r) \/ SeesDone(r) \/ SeesTimeout(r) \/ SeesCancel(r)
        \/ Write(r) \/ Return(r) \/ Record(r) \/ CloseDone(r)
        \/ Send(r) \/ SendRest(r) \/ Poll(r) \/ StopReader(r)

\* A run ends by its own timeout, and goroutines are scheduled.  Nothing says
\* that a wait times out, that the scenario is cancelled or that a poll comes
\* before the reader is stopped.
ScenarioFairness ==
    /\ WF_scenarioVars(Load) /\ WF_scenarioVars(ReportScenario)
    /\ \A r \in Roles :
        /\ WF_scenarioVars(r \in DOMAIN scenario /\ Instance(r))
        /\ WF_scenarioVars(r \in DOMAIN scenario /\ StopReader(r))

ScenarioSpec == ScenarioInit /\ [][ScenarioNext]_scenarioVars /\ ScenarioFairness

-----------------------------------------------------------------------------
(* Properties *)

\* A dependent runs only after its dependency has written the phase it was
\* told to wait for: what the two ends of the gate derive from the file, the
\* phase waited for and the phase signalled, is the same in every file that
\* loads (runner.go, spec.go).
GateRespected ==
    \A r \in DOMAIN scenario : scenario[r].dep # NoRole /\ log[r] # <<>> =>
        DependencyPhase(scenario, r) \in Range(log[scenario[r].dep])

\* An instance that gave up because its dependency ended did so for a reason:
\* the dependency never wrote the phase, and the error quotes the result it is
\* finally reported with and, while the scenario was not cancelled and no line
\* was met half-written, the last message it sent to the instance.
FastFailIsTrue ==
    \A e \in orchErrs : e.why = "fastfail" =>
        /\ DependencyPhase(scenario, e.role) \notin Range(log[e.dep])
        /\ results[e.dep] = e.found /\ done[e.dep]
        /\ reader[e.role] = "stopped" /\ ~cancelled /\ skipped[e.role] = {} =>
              \A i \in DOMAIN bus : bus[i].from = e.dep /\ bus[i].to = e.role => i <= e.heard

\* The gate between two instances does what the file says, however the ends of
\* both and the choices of select fall together.
GateIsTrue == GateRespected /\ FastFailIsTrue

\* The events of an instance are all the lines it sent or received until its
\* reader was stopped, in the order of the bus and none twice, except those a
\* poll met half-written.  When the scenario was not cancelled, its own sends
\* are all among them once it has finished.
EventsComplete ==
    \A r \in DOMAIN scenario :
        /\ ipcEvents[r] = InOrder({i \in 1..offset[r] : Visible(r, bus[i])} \ skipped[r])
        /\ stage[r] = "finished" /\ reader[r] = "stopped" /\ ~cancelled =>
              \A i \in DOMAIN bus : bus[i].from = r => i \in Range(ipcEvents[r]) \union skipped[r]

\* The scenario exits 0 only if every instance passed, and reports that no
\* test matched only if nothing worse happened (aggregateExitCode).
ExitIsWorst ==
    /\ exitCode = 0 <=> \A r \in DOMAIN scenario : results[r].code = 0 /\ ~results[r].err
    /\ exitCode = 10 => \A r \in DOMAIN scenario : ~results[r].err /\ results[r].code \in {0, 10}

\* A scenario that loads ends, with the worst of its results, even if no wait
\* ever times out: a dependent of an instance that ended without signalling
\* fails fast, and so do its own.
Terminates == command = "started" ~> command = "reported" /\ ExitIsWorst
=============================================================================
