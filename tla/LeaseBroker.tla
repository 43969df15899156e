---------------------------- MODULE LeaseBroker ----------------------------
(***************************************************************************)
(* The child-lease half of the VHDX storage broker                         *)
(* (internal/vhdxworkspace/broker.go): acquire, heartbeat, release,        *)
(* attach-retained, remove-retained and the Recover pass, as they          *)
(* interleave in one broker process that may crash, with clients that may  *)
(* be killed and a machine that may reboot.                                *)
(*                                                                         *)
(* A lease is named by the run that asks for it: the run id, the workspace *)
(* id and the single lease of a run coincide in runsvc/vhdx_workspace.go.  *)
(* Broker.Handle runs every request without a lock, so a step of this      *)
(* module is what happens up to the next durable write or native call of a *)
(* handler.                                                                *)
(***************************************************************************)
EXTENDS Naturals

CONSTANTS
    Leases,       \* one lease per run
    None,         \* "no such file", "no such lease"
    MaxSessions,  \* bound: how often one child can be attached
    MaxFaults,    \* bound: injected failures of native calls and writes
    MaxOutages,   \* bound: broker crashes and reboots
    Orderly       \* TRUE: a heartbeat gap, a handler and a Recover pass all end
                  \* within the grace period, and a retained workspace is asked
                  \* for after the run that kept it; FALSE: no such assumption

VARIABLES
    journal,   \* leases/<lease>.json: a record, or None
    child,     \* children/<lease>.vhdx exists
    space,     \* workspace directory: none, plain, owned (owner marker in it)
    library,   \* the mount point <workspace>/Library exists
    record,    \* retained/<run>.json exists
    att,       \* the session that has the child attached and mounted, 0: none
    gen,       \* the last session opened for the child
    children,  \* Broker.children: the session registered for the lease, 0: none
    task,      \* the request handlers at work on the lease
    rec,       \* the Recover pass
    up,        \* the broker process: down, starting, serving
    client,    \* the testplay process that owns the lease
    unity,     \* its Unity process
    kept,      \* history: "yes" once release(retain) was answered OK, "dropped"
               \* from the first request to remove the retained child
    pidKnown,  \* history: a heartbeat carrying the Unity PID was answered OK
    faults, outages

disk  == <<journal, child, space, library, record>>
mem   == <<att, gen, children>>
procs == <<client, unity>>
hist  == <<kept, pidKnown>>
vars  == <<disk, mem, task, rec, up, procs, hist, faults, outages>>

ClientStates == {"prepared", "acquiring", "running", "releasing", "exited", "killed"}

JournalStates == {"requested", "creating", "attaching", "ready", "releasing",
                  "released", "recovering", "quarantined"}

\* LeaseJournal as far as recovery reads it. fresh: UpdatedAt is within the
\* grace period; unity: UnityPID is recorded; ident: FileIdentity is recorded;
\* sameBoot: BootSessionID is that of the running system.
Journals == [state: JournalStates, retained: BOOLEAN, fresh: BOOLEAN,
             unity: BOOLEAN, ident: BOOLEAN, sameBoot: BOOLEAN]

Sessions == 0 .. MaxSessions

\* The four request handlers that can be at work on one lease: the owner's
\* acquire or release, the monitor's heartbeat, the heartbeat that carries the
\* Unity PID, and a retained-workspace command.
Kinds == {"owner", "beat", "pid", "tool"}

TaskLabels == {"a_owner", "a_create", "a_attach", "a_commit", "a_publish",
               "a_undo", "a_unlink", "b_write", "x_native", "x_settle",
               "x_record", "x_unlink", "x_forget", "t_attach", "t_write",
               "t_publish", "d_attach", "d_release", "d_clean", "d_unlink",
               "d_record"}
RecLabels  == {"gone", "seize", "attach", "release", "clean", "unlink"}

MaybeJournals == Journals \cup {None}
IdleTask == [pc |-> "idle", copy |-> None, ses |-> 0]
Tasks == {IdleTask} \cup [pc: TaskLabels, copy: Journals, ses: Sessions]
Recs  ==
    [pc: {"idle", "pick"}, cur: {None}, copy: {None}, ses: {0},
     todo: [Leases -> MaybeJournals]]
    \cup
    [pc: RecLabels, cur: Leases, copy: Journals, ses: Sessions,
     todo: [Leases -> MaybeJournals]]

ASSUME ConstantsAssumption ==
    /\ Leases # {}
    /\ None \notin Leases
    /\ None \notin Journals
    /\ MaxSessions \in Nat
    /\ MaxFaults \in Nat
    /\ MaxOutages \in Nat
    /\ Orderly \in BOOLEAN

TypeOK ==
    /\ journal \in [Leases -> MaybeJournals]
    /\ child \in [Leases -> BOOLEAN]
    /\ space \in [Leases -> {"none", "plain", "owned"}]
    /\ library \in [Leases -> BOOLEAN]
    /\ record \in [Leases -> BOOLEAN]
    /\ att \in [Leases -> Sessions]
    /\ gen \in [Leases -> Sessions]
    /\ children \in [Leases -> Sessions]
    /\ task \in [Leases -> [Kinds -> Tasks]]
    /\ rec \in Recs
    /\ up \in {"down", "starting", "serving"}
    /\ client \in [Leases -> ClientStates]
    /\ unity \in [Leases -> {"none", "started", "told", "gone"}]
    /\ kept \in [Leases -> {"no", "yes", "dropped"}]
    /\ pidKnown \in [Leases -> BOOLEAN]
    /\ faults \in 0 .. MaxFaults
    /\ outages \in 0 .. MaxOutages

-----------------------------------------------------------------------------
(* State the handlers read and write *)

Alive(l)      == client[l] \notin {"exited", "killed"}
UnityAlive(l) == unity[l] \in {"started", "told"}

Idle(l, k) == task[l][k].pc = "idle"
At(l, k, pc) == task[l][k].pc = pc
Copy(l, k) == task[l][k].copy
Ses(l, k)  == task[l][k].ses
Goto(l, k, pc, copy, ses) ==
    task' = [task EXCEPT ![l][k] = [pc |-> pc, copy |-> copy, ses |-> ses]]
Finish(l, k) == task' = [task EXCEPT ![l][k] = IdleTask]

\* Store.WriteLease: a durable replace of the journal file, whether or not it
\* still exists, that refreshes UpdatedAt.
WriteLease(l, j) == journal' = [journal EXCEPT ![l] = [j EXCEPT !.fresh = TRUE]]
WriteState(l, j, state) == WriteLease(l, [j EXCEPT !.state = state])

\* Store.RemoveLease fails when the journal is no longer there.
HasJournal(l) == journal[l] # None
RemoveLease(l) == journal' = [journal EXCEPT ![l] = None]

\* Native.AcquireChild / AttachChild up to the mounted volume: opening the
\* child is exclusive, and the Library mount point needs its workspace.
CanAttach(l) == child[l] /\ att[l] = 0 /\ space[l] # "none"
Attach(l) ==
    /\ gen[l] < MaxSessions
    /\ gen' = [gen EXCEPT ![l] = @ + 1]
    /\ att' = [att EXCEPT ![l] = gen[l] + 1]
    /\ library' = [library EXCEPT ![l] = TRUE]

\* ChildSession.Release: under the session's own lock, and a no-op that
\* reports success when this session was released before.
ReleaseSession(l, s, delete) ==
    IF att[l] = s
    THEN /\ att' = [att EXCEPT ![l] = 0]
         /\ library' = [library EXCEPT ![l] = FALSE]
         /\ child' = [child EXCEPT ![l] = @ /\ ~delete]
    ELSE UNCHANGED <<att, library, child>>

\* Mutant: a mount point in the workspace is not noticed.
CanCleanupMounted(l) == space[l] \in {"none", "owned"}

\* cleanupOwnedWorkspace: nothing to do when the workspace is gone, otherwise
\* it needs the owner marker and refuses a tree with a mount point in it.
CanCleanup(l) == space[l] = "none" \/ (space[l] = "owned" /\ ~library[l])
Cleanup(l) == space' = [space EXCEPT ![l] = "none"]

\* Any native call, parent verification or write may fail, MaxFaults times.
Fault == faults < MaxFaults /\ faults' = faults + 1

IdleRec == [pc |-> "idle", cur |-> None, copy |-> None,
            ses |-> 0, todo |-> [l \in Leases |-> None]]

Init ==
    /\ journal = [l \in Leases |-> None]
    /\ child = [l \in Leases |-> FALSE]
    /\ space = [l \in Leases |-> "plain"]
    /\ library = [l \in Leases |-> FALSE]
    /\ record = [l \in Leases |-> FALSE]
    /\ att = [l \in Leases |-> 0]
    /\ gen = [l \in Leases |-> 0]
    /\ children = [l \in Leases |-> 0]
    /\ task = [l \in Leases |-> [k \in Kinds |-> IdleTask]]
    /\ rec = IdleRec
    /\ up = "serving"
    /\ client = [l \in Leases |-> "prepared"]
    /\ unity = [l \in Leases |-> "none"]
    /\ kept = [l \in Leases |-> "no"]
    /\ pidKnown = [l \in Leases |-> FALSE]
    /\ faults = 0
    /\ outages = 0

-----------------------------------------------------------------------------
(* Broker.acquire, from the journal on. The parent is resolved and verified *)
(* and capacity admitted before anything is written.                        *)

Request(l, k) ==
    /\ up = "serving" /\ Idle(l, k)
    /\ Orderly /\ k = "tool" => Idle(l, "owner")

\* Parent unavailable, no capacity, or the first journal write failed.
AcquireRefused(l) ==
    /\ Request(l, "owner") /\ client[l] = "prepared"
    /\ Fault
    /\ client' = [client EXCEPT ![l] = "acquiring"]
    /\ UNCHANGED <<disk, mem, task, rec, up, unity, hist, outages>>

AcquireBegin(l) ==
    /\ Request(l, "owner") /\ client[l] = "prepared"
    /\ space[l] # "none" /\ ~library[l]
    /\ client' = [client EXCEPT ![l] = "acquiring"]
    /\ LET j == [state |-> "requested", retained |-> FALSE, fresh |-> TRUE,
                 unity |-> FALSE, ident |-> FALSE, sameBoot |-> TRUE]
       IN WriteLease(l, j) /\ Goto(l, "owner", "a_owner", j, 0)
    /\ UNCHANGED <<child, space, library, record, mem, rec, up, unity, hist, faults, outages>>

\* writeWorkspaceOwner, an exclusive create; on failure the journal goes.
AcquireOwner(l) ==
    /\ At(l, "owner", "a_owner")
    /\ \/ /\ space[l] = "plain"
          /\ space' = [space EXCEPT ![l] = "owned"]
          /\ Goto(l, "owner", "a_create", Copy(l, "owner"), 0)
          /\ UNCHANGED <<journal, faults>>
       \/ /\ IF space[l] = "plain" THEN Fault ELSE UNCHANGED faults
          /\ RemoveLease(l)
          /\ Finish(l, "owner")
          /\ UNCHANGED space
    /\ UNCHANGED <<child, library, record, mem, rec, up, procs, hist, outages>>

\* Native.AcquireChild: the creating-child transition, then the child file.
AcquireCreate(l) ==
    /\ At(l, "owner", "a_create")
    /\ WriteState(l, Copy(l, "owner"), "creating")
    /\ \/ /\ child' = [child EXCEPT ![l] = TRUE]
          /\ Goto(l, "owner", "a_attach", Copy(l, "owner"), 0)
          /\ UNCHANGED faults
       \/ /\ Fault
          /\ Goto(l, "owner", "a_undo", Copy(l, "owner"), 0)
          /\ UNCHANGED child
    /\ UNCHANGED <<space, library, record, mem, rec, up, procs, hist, outages>>

\* Open, attach and mount; a failure closes the attachment and deletes the
\* child, and that deletion may fail as well.
AcquireAttach(l) ==
    /\ At(l, "owner", "a_attach")
    /\ WriteState(l, Copy(l, "owner"), "attaching")
    /\ \/ /\ CanAttach(l)
          /\ Attach(l)
          /\ Goto(l, "owner", "a_commit", Copy(l, "owner"), gen[l] + 1)
          /\ UNCHANGED <<child, faults>>
       \/ /\ IF CanAttach(l) THEN Fault ELSE UNCHANGED faults
          /\ child' = [child EXCEPT ![l] = FALSE]
          /\ Goto(l, "owner", "a_undo", Copy(l, "owner"), 0)
          /\ UNCHANGED <<att, gen, library>>
       \/ /\ Fault
          /\ Goto(l, "owner", "a_undo", Copy(l, "owner"), 0)
          /\ UNCHANGED <<att, gen, library, child>>
    /\ UNCHANGED <<space, record, children, rec, up, procs, hist, outages>>

\* The ready journal, with the child's identity; if it cannot be written the
\* session is released, the child deleted and the workspace removed.
AcquireCommit(l) ==
    LET ready == [Copy(l, "owner") EXCEPT !.state = "ready", !.ident = TRUE] IN
    /\ At(l, "owner", "a_commit")
    /\ \/ /\ WriteLease(l, ready)
          /\ Goto(l, "owner", "a_publish", ready, Ses(l, "owner"))
          /\ UNCHANGED <<att, library, child, space, faults>>
       \/ /\ Fault
          /\ ReleaseSession(l, Ses(l, "owner"), TRUE)
          /\ IF space[l] = "owned" THEN Cleanup(l) ELSE UNCHANGED space
          /\ Finish(l, "owner")
          /\ UNCHANGED journal
    /\ UNCHANGED <<record, gen, children, rec, up, procs, hist, outages>>

AcquirePublish(l) ==
    /\ At(l, "owner", "a_publish")
    /\ children' = [children EXCEPT ![l] = Ses(l, "owner")]
    /\ client' = [client EXCEPT ![l] = IF @ = "acquiring" THEN "running" ELSE @]
    /\ Finish(l, "owner")
    /\ UNCHANGED <<disk, att, gen, rec, up, unity, hist, faults, outages>>

\* AcquireChild failed: without a child the owner marker and the journal are
\* removed, with one the lease is quarantined.
AcquireUndo(l) ==
    /\ At(l, "owner", "a_undo")
    /\ IF child[l]
       THEN /\ WriteState(l, Copy(l, "owner"), "quarantined")
            /\ Finish(l, "owner")
            /\ UNCHANGED space
       ELSE /\ space' = [space EXCEPT ![l] = IF @ = "owned" THEN "plain" ELSE @]
            /\ Goto(l, "owner", "a_unlink", Copy(l, "owner"), 0)
            /\ UNCHANGED journal
    /\ UNCHANGED <<child, library, record, mem, rec, up, procs, hist, faults, outages>>

AcquireUnlink(l) ==
    /\ At(l, "owner", "a_unlink")
    /\ RemoveLease(l)
    /\ Finish(l, "owner")
    /\ UNCHANGED <<child, space, library, record, mem, rec, up, procs, hist, faults, outages>>

-----------------------------------------------------------------------------
(* Broker.heartbeat: the journal is read, changed and written back without  *)
(* a lock; only then is the session looked up. The monitor's heartbeat      *)
(* carries no Unity PID and keeps the one it read.                          *)

HeartbeatRead(l, k) ==
    /\ Request(l, k) /\ client[l] = "running"
    /\ k = "pid" => unity[l] = "started"
    /\ IF HasJournal(l) /\ journal[l].state = "ready"
       THEN Goto(l, k, "b_write", [journal[l] EXCEPT !.unity = @ \/ k = "pid"], 0)
       ELSE UNCHANGED task
    /\ unity' = [unity EXCEPT ![l] = IF k = "pid" THEN "told" ELSE @]
    /\ UNCHANGED <<disk, mem, rec, up, client, hist, faults, outages>>

HeartbeatWrite(l, k) ==
    /\ At(l, k, "b_write")
    /\ \/ /\ WriteLease(l, Copy(l, k))
          /\ pidKnown' = [pidKnown EXCEPT ![l] = @ \/ (k = "pid" /\ children[l] # 0)]
          /\ UNCHANGED faults
       \/ Fault /\ UNCHANGED <<journal, pidKnown>>
    /\ Finish(l, k)
    /\ UNCHANGED <<child, space, library, record, mem, rec, up, procs, kept, outages>>

-----------------------------------------------------------------------------
(* Broker.release. *)

ReleaseBegin(l, retain) ==
    /\ up = "serving" /\ \A k \in {"owner", "beat", "pid"} : Idle(l, k)
    /\ client[l] = "running" /\ ~UnityAlive(l)
    /\ client' = [client EXCEPT ![l] = "releasing"]
    /\ \/ /\ children[l] # 0 /\ HasJournal(l)
          /\ LET j == [journal[l] EXCEPT !.state = "releasing", !.retained = retain]
             IN WriteLease(l, j) /\ Goto(l, "owner", "x_native", j, children[l])
          /\ UNCHANGED faults
       \/ /\ IF children[l] # 0 /\ HasJournal(l) THEN Fault ELSE UNCHANGED faults
          /\ UNCHANGED <<journal, task>>
    /\ UNCHANGED <<child, space, library, record, mem, rec, up, unity, hist, outages>>

\* Mutant: the child is deleted when it is to be retained, and kept when not.
ReleaseNativeInverted(l) ==
    /\ At(l, "owner", "x_native")
    /\ ReleaseSession(l, Ses(l, "owner"), Copy(l, "owner").retained)
    /\ Goto(l, "owner", "x_settle", Copy(l, "owner"), Ses(l, "owner"))
    /\ UNCHANGED <<journal, space, record, gen, children, rec, up, procs, hist, faults, outages>>

ReleaseNative(l) ==
    /\ At(l, "owner", "x_native")
    /\ \/ /\ ReleaseSession(l, Ses(l, "owner"), ~Copy(l, "owner").retained)
          /\ Goto(l, "owner", "x_settle", Copy(l, "owner"), Ses(l, "owner"))
          /\ UNCHANGED <<journal, faults>>
       \/ /\ Fault
          /\ WriteState(l, Copy(l, "owner"), "quarantined")
          /\ Finish(l, "owner")
          /\ UNCHANGED <<att, library, child>>
    /\ UNCHANGED <<space, record, gen, children, rec, up, procs, hist, outages>>

\* retain: the released journal; otherwise the workspace goes first.
ReleaseSettle(l) ==
    /\ At(l, "owner", "x_settle")
    /\ IF Copy(l, "owner").retained
       THEN /\ UNCHANGED space
            /\ \/ /\ WriteState(l, Copy(l, "owner"), "released")
                  /\ Goto(l, "owner", "x_record", Copy(l, "owner"), 0)
                  /\ UNCHANGED faults
               \/ /\ Fault
                  /\ Finish(l, "owner")
                  /\ UNCHANGED journal
       ELSE \/ /\ CanCleanup(l)
               /\ Cleanup(l)
               /\ Goto(l, "owner", "x_unlink", Copy(l, "owner"), 0)
               /\ UNCHANGED <<journal, faults>>
            \/ /\ IF CanCleanup(l) THEN Fault ELSE UNCHANGED faults
               /\ WriteState(l, Copy(l, "owner"), "quarantined")
               /\ Finish(l, "owner")
               /\ UNCHANGED space
    /\ UNCHANGED <<child, library, record, mem, rec, up, procs, hist, outages>>

\* WriteRetained, an exclusive create.
ReleaseRecord(l) ==
    /\ At(l, "owner", "x_record")
    /\ \/ /\ ~record[l]
          /\ record' = [record EXCEPT ![l] = TRUE]
          /\ Goto(l, "owner", "x_forget", Copy(l, "owner"), 0)
          /\ UNCHANGED faults
       \/ /\ IF record[l] THEN UNCHANGED faults ELSE Fault
          /\ Finish(l, "owner")
          /\ UNCHANGED record
    /\ UNCHANGED <<journal, child, space, library, mem, rec, up, procs, hist, outages>>

ReleaseUnlink(l) ==
    /\ At(l, "owner", "x_unlink")
    /\ \/ /\ HasJournal(l)
          /\ RemoveLease(l)
          /\ Goto(l, "owner", "x_forget", Copy(l, "owner"), 0)
          /\ UNCHANGED faults
       \/ /\ IF HasJournal(l) THEN Fault ELSE UNCHANGED faults
          /\ Finish(l, "owner")
          /\ UNCHANGED journal
    /\ UNCHANGED <<child, space, library, record, mem, rec, up, procs, hist, outages>>

ReleaseForget(l) ==
    /\ At(l, "owner", "x_forget")
    /\ children' = [children EXCEPT ![l] = 0]
    /\ kept' = [kept EXCEPT ![l] = IF @ = "no" /\ Copy(l, "owner").retained THEN "yes" ELSE @]
    /\ Finish(l, "owner")
    /\ UNCHANGED <<disk, att, gen, rec, up, procs, pidKnown, faults, outages>>

-----------------------------------------------------------------------------
(* Broker.attachRetained and Broker.removeRetained, asked for by            *)
(* `testplay workspace attach` and `testplay workspace remove`.             *)

\* Mutant: any lease will do.
RetainedMatchesAny(l) == HasJournal(l)

\* The retained record and the journal name the same retained child.
RetainedMatches(l) == record[l] /\ HasJournal(l) /\ journal[l].retained

\* The parent resolves and verifies; the Library path must not exist yet.
AttachBegin(l) ==
    /\ Request(l, "tool") /\ RetainedMatches(l)
    /\ children[l] = 0
    /\ space[l] # "none" /\ ~library[l]
    /\ Goto(l, "tool", "t_attach", journal[l], 0)
    /\ UNCHANGED <<disk, mem, rec, up, procs, hist, faults, outages>>

\* AttachChild compares the child's identity with the journal's.
ToolAttach(l, from, to) ==
    /\ At(l, "tool", from)
    /\ \/ /\ CanAttach(l) /\ Copy(l, "tool").ident
          /\ Attach(l)
          /\ Goto(l, "tool", to, Copy(l, "tool"), gen[l] + 1)
          /\ UNCHANGED faults
       \/ /\ IF CanAttach(l) /\ Copy(l, "tool").ident THEN Fault ELSE UNCHANGED faults
          /\ Finish(l, "tool")
          /\ UNCHANGED <<att, gen, library>>
    /\ UNCHANGED <<journal, child, space, record, children, rec, up, procs, hist, outages>>

AttachNative(l) == ToolAttach(l, "t_attach", "t_write")

\* The ready journal; if it cannot be written the child is detached again.
AttachWrite(l) ==
    LET ready == [Copy(l, "tool") EXCEPT !.state = "ready"] IN
    /\ At(l, "tool", "t_write")
    /\ \/ /\ WriteLease(l, ready)
          /\ Goto(l, "tool", "t_publish", ready, Ses(l, "tool"))
          /\ UNCHANGED <<att, library, child, faults>>
       \/ /\ Fault
          /\ ReleaseSession(l, Ses(l, "tool"), FALSE)
          /\ Finish(l, "tool")
          /\ UNCHANGED journal
    /\ UNCHANGED <<space, record, gen, children, rec, up, procs, hist, outages>>

AttachPublish(l) ==
    /\ At(l, "tool", "t_publish")
    /\ children' = [children EXCEPT ![l] = Ses(l, "tool")]
    /\ Finish(l, "tool")
    /\ UNCHANGED <<disk, att, gen, rec, up, procs, hist, faults, outages>>

RemoveBegin(l) ==
    /\ Request(l, "tool") /\ RetainedMatches(l)
    /\ Goto(l, "tool", IF children[l] = 0 THEN "d_attach" ELSE "d_release",
            journal[l], children[l])
    /\ kept' = [kept EXCEPT ![l] = "dropped"]
    /\ UNCHANGED <<disk, mem, rec, up, procs, pidKnown, faults, outages>>

RemoveAttach(l) == ToolAttach(l, "d_attach", "d_release")

RemoveRelease(l) ==
    /\ At(l, "tool", "d_release")
    /\ \/ /\ ReleaseSession(l, Ses(l, "tool"), TRUE)
          /\ Goto(l, "tool", "d_clean", Copy(l, "tool"), 0)
          /\ UNCHANGED faults
       \/ /\ Fault
          /\ Finish(l, "tool")
          /\ UNCHANGED <<att, library, child>>
    /\ UNCHANGED <<journal, space, record, gen, children, rec, up, procs, hist, outages>>

RemoveClean(l) ==
    /\ At(l, "tool", "d_clean")
    /\ \/ /\ CanCleanup(l)
          /\ Cleanup(l)
          /\ Goto(l, "tool", "d_unlink", Copy(l, "tool"), 0)
          /\ UNCHANGED <<journal, faults>>
       \/ /\ IF CanCleanup(l) THEN Fault ELSE UNCHANGED faults
          /\ WriteState(l, Copy(l, "tool"), "quarantined")
          /\ Finish(l, "tool")
          /\ UNCHANGED space
    /\ UNCHANGED <<child, library, record, mem, rec, up, procs, hist, outages>>

RemoveUnlink(l) ==
    /\ At(l, "tool", "d_unlink")
    /\ \/ /\ HasJournal(l)
          /\ RemoveLease(l)
          /\ Goto(l, "tool", "d_record", Copy(l, "tool"), 0)
          /\ UNCHANGED faults
       \/ /\ IF HasJournal(l) THEN Fault ELSE UNCHANGED faults
          /\ Finish(l, "tool")
          /\ UNCHANGED journal
    /\ UNCHANGED <<child, space, library, record, mem, rec, up, procs, hist, outages>>

\* RemoveRetained, then the entry of Broker.children.
RemoveRecord(l) ==
    /\ At(l, "tool", "d_record")
    /\ \/ /\ record[l]
          /\ record' = [record EXCEPT ![l] = FALSE]
          /\ children' = [children EXCEPT ![l] = 0]
          /\ UNCHANGED faults
       \/ /\ IF record[l] THEN Fault ELSE UNCHANGED faults
          /\ UNCHANGED <<record, children>>
    /\ Finish(l, "tool")
    /\ UNCHANGED <<journal, child, space, library, att, gen, rec, up, procs, hist, outages>>

-----------------------------------------------------------------------------
(* Broker.Recover, at startup and from the service's five-second ticker. It *)
(* decides on the copies that ListLeases read when the pass began.          *)

StartPass == rec' = [IdleRec EXCEPT !.pc = "pick", !.todo = journal]

RecoverTick ==
    /\ up = "serving" /\ rec.pc = "idle"
    /\ \E l \in Leases : HasJournal(l)
    /\ StartPass
    /\ UNCHANGED <<disk, mem, task, up, procs, hist, faults, outages>>

\* Mutants: the live client, the retained flag, or the age of the journal is
\* not looked at.
PreservedClientless(l, j) == j.retained \/ (j.sameBoot /\ ((j.unity /\ UnityAlive(l)) \/ j.fresh))
PreservedUnretained(l, j) == j.sameBoot /\ (Alive(l) \/ (j.unity /\ UnityAlive(l)) \/ j.fresh)
PreservedAgeless(l, j) ==
    j.retained \/ (j.sameBoot /\ (Alive(l) \/ (j.unity /\ UnityAlive(l)) \/ j.state = "ready"))

\* The copy says the lease is retained, or of this boot and still claimed by
\* a live client, a live Unity or a journal younger than the grace period.
Preserved(l, j) ==
    \/ j.retained
    \/ j.sameBoot /\ (Alive(l) \/ (j.unity /\ UnityAlive(l)) \/ j.fresh)

NextEntry == rec' = [rec EXCEPT !.pc = "pick", !.cur = None, !.copy = None, !.ses = 0]

RecoverPick(l) ==
    LET j == rec.todo[l] IN
    /\ rec.pc = "pick" /\ j # None
    /\ rec' = IF Preserved(l, j)
              THEN [rec EXCEPT !.todo[l] = None]
              ELSE [rec EXCEPT !.todo[l] = None, !.cur = l, !.copy = j,
                               !.pc = IF child[l] THEN "seize" ELSE "gone"]
    /\ UNCHANGED <<disk, mem, task, up, procs, hist, faults, outages>>

\* The pass ends; at startup the broker now serves requests.
RecoverDone ==
    /\ rec.pc = "pick" /\ \A l \in Leases : rec.todo[l] = None
    /\ rec' = IdleRec
    /\ up' = "serving"
    /\ UNCHANGED <<disk, mem, task, procs, hist, faults, outages>>

\* An error that Recover returns instead of recording it: the rest of the
\* entries wait for the next pass, and a service that was starting stops.
RecoverAbort ==
    /\ rec' = IdleRec
    /\ up' = IF up = "starting" THEN "down" ELSE up

\* Mutant: a state that no reader of the journal knows.
RecoverQuarantineMisnamed(l) == WriteState(l, rec.copy, "preserved") /\ NextEntry

RecoverQuarantine(l) == WriteState(l, rec.copy, "quarantined") /\ NextEntry

\* The child file is missing: workspace, then journal.
RecoverGone(l) ==
    /\ rec.pc = "gone" /\ rec.cur = l
    /\ \/ /\ CanCleanup(l)
          /\ Cleanup(l)
          /\ rec' = [rec EXCEPT !.pc = "unlink"]
          /\ UNCHANGED <<journal, faults>>
       \/ /\ IF CanCleanup(l) THEN Fault ELSE UNCHANGED faults
          /\ RecoverQuarantine(l)
          /\ UNCHANGED space
    /\ UNCHANGED <<child, library, record, mem, task, up, procs, hist, outages>>

\* The parent resolves and verifies, or the lease is quarantined. A session
\* of this broker process is used; otherwise the child is to be reattached.
RecoverSeize(l) ==
    /\ rec.pc = "seize" /\ rec.cur = l
    /\ \/ /\ children[l] # 0
          /\ rec' = [rec EXCEPT !.pc = "release", !.ses = children[l]]
          /\ UNCHANGED <<journal, faults, up>>
       \/ /\ children[l] = 0
          /\ WriteState(l, rec.copy, "recovering")
          /\ rec' = [rec EXCEPT !.pc = "attach"]
          /\ UNCHANGED <<faults, up>>
       \/ /\ Fault
          /\ RecoverQuarantine(l)
          /\ UNCHANGED up
       \/ /\ children[l] = 0
          /\ Fault
          /\ RecoverAbort
          /\ UNCHANGED journal
    /\ UNCHANGED <<child, space, library, record, mem, task, procs, hist, outages>>

RecoverAttach(l) ==
    /\ rec.pc = "attach" /\ rec.cur = l
    /\ \/ /\ CanAttach(l) /\ rec.copy.ident
          /\ Attach(l)
          /\ rec' = [rec EXCEPT !.pc = "release", !.ses = gen[l] + 1]
          /\ UNCHANGED <<journal, faults>>
       \/ /\ IF CanAttach(l) /\ rec.copy.ident THEN Fault ELSE UNCHANGED faults
          /\ RecoverQuarantine(l)
          /\ UNCHANGED <<att, gen, library>>
    /\ UNCHANGED <<child, space, record, children, task, up, procs, hist, outages>>

RecoverRelease(l) ==
    /\ rec.pc = "release" /\ rec.cur = l
    /\ \/ /\ ReleaseSession(l, rec.ses, TRUE)
          /\ rec' = [rec EXCEPT !.pc = "clean"]
          /\ UNCHANGED <<journal, faults>>
       \/ /\ Fault
          /\ RecoverQuarantine(l)
          /\ UNCHANGED <<att, library, child>>
    /\ UNCHANGED <<space, record, gen, children, task, up, procs, hist, outages>>

RecoverClean(l) ==
    /\ rec.pc = "clean" /\ rec.cur = l
    /\ \/ /\ CanCleanup(l)
          /\ Cleanup(l)
          /\ rec' = [rec EXCEPT !.pc = "unlink"]
          /\ UNCHANGED <<journal, faults>>
       \/ /\ IF CanCleanup(l) THEN Fault ELSE UNCHANGED faults
          /\ RecoverQuarantine(l)
          /\ UNCHANGED space
    /\ UNCHANGED <<child, library, record, mem, task, up, procs, hist, outages>>

\* Only an entry whose child was released also leaves Broker.children.
RecoverUnlink(l) ==
    /\ rec.pc = "unlink" /\ rec.cur = l
    /\ \/ /\ HasJournal(l)
          /\ RemoveLease(l)
          /\ children' = [children EXCEPT ![l] = IF rec.ses # 0 THEN 0 ELSE @]
          /\ NextEntry
          /\ UNCHANGED <<up, faults>>
       \/ /\ IF HasJournal(l) THEN Fault ELSE UNCHANGED faults
          /\ RecoverAbort
          /\ UNCHANGED <<journal, children>>
    /\ UNCHANGED <<child, space, library, record, att, gen, task, procs, hist, outages>>

-----------------------------------------------------------------------------
(* The processes around the broker *)

\* runsvc: the client learns that its acquire failed and removes its
\* workspace shell (the deferred ws.Cleanup of prepareVHDXWorkspace).
ClientAcquireFailed(l) ==
    /\ client[l] = "acquiring" /\ Idle(l, "owner")
    /\ client' = [client EXCEPT ![l] = "exited"]
    /\ space' = [space EXCEPT ![l] = "none"]
    /\ library' = [library EXCEPT ![l] = FALSE]
    /\ UNCHANGED <<journal, child, record, mem, task, rec, up, unity, hist, faults, outages>>

\* The release call returned. A failed release is asked for again with the
\* same request id, which Handle answers from its cache, or, by a restarted
\* broker, with lease-not-found: the repetition changes nothing.
ClientReleaseReturned(l) ==
    /\ client[l] = "releasing" /\ Idle(l, "owner")
    /\ client' = [client EXCEPT ![l] = "exited"]
    /\ UNCHANGED <<disk, mem, task, rec, up, unity, hist, faults, outages>>

ClientKilled(l) ==
    /\ Alive(l)
    /\ client' = [client EXCEPT ![l] = "killed"]
    /\ UNCHANGED <<disk, mem, task, rec, up, unity, hist, faults, outages>>

UnityStart(l) ==
    /\ client[l] = "running" /\ unity[l] = "none"
    /\ unity' = [unity EXCEPT ![l] = "started"]
    /\ UNCHANGED <<disk, mem, task, rec, up, client, hist, faults, outages>>

\* A Unity process may outlive its client.
UnityExit(l) ==
    /\ UnityAlive(l)
    /\ unity' = [unity EXCEPT ![l] = "gone"]
    /\ UNCHANGED <<disk, mem, task, rec, up, client, hist, faults, outages>>

\* UpdatedAt falls out of the grace period, and so does an older copy of it.
GraceElapses(l) ==
    /\ HasJournal(l) /\ journal[l].fresh
    /\ Orderly => ~Alive(l) /\ \A k \in Kinds : Idle(l, k)
    /\ journal' = [journal EXCEPT ![l].fresh = FALSE]
    /\ rec' = IF ~Orderly /\ rec.todo[l] # None
              THEN [rec EXCEPT !.todo[l].fresh = FALSE] ELSE rec
    /\ UNCHANGED <<child, space, library, record, mem, task, up, procs, hist, faults, outages>>

\* A pass so slow that the copy it read falls out of the grace period.
PassOutlastsGrace(l) ==
    /\ ~Orderly /\ rec.todo[l] # None /\ rec.todo[l].fresh
    /\ rec' = [rec EXCEPT !.todo[l].fresh = FALSE]
    /\ UNCHANGED <<disk, mem, task, up, procs, hist, faults, outages>>

\* The broker process ends: its handles close, which detaches every child and
\* leaves the mount points; its maps, handlers and Recover pass are gone.
LoseProcess ==
    /\ outages < MaxOutages /\ outages' = outages + 1
    /\ up' = "down"
    /\ att' = [l \in Leases |-> 0]
    /\ children' = [l \in Leases |-> 0]
    /\ task' = [l \in Leases |-> [k \in Kinds |-> IdleTask]]
    /\ rec' = IdleRec
    /\ UNCHANGED <<child, space, library, record, gen, hist, faults>>

BrokerCrash == up # "down" /\ LoseProcess /\ UNCHANGED <<journal, procs>>

\* After a reboot the recorded boot session is no longer the current one.
Reboot ==
    /\ LoseProcess
    /\ journal' = [l \in Leases |-> IF HasJournal(l)
                                    THEN [journal[l] EXCEPT !.sameBoot = FALSE] ELSE None]
    /\ client' = [l \in Leases |-> IF Alive(l) THEN "killed" ELSE client[l]]
    /\ unity' = [l \in Leases |-> IF UnityAlive(l) THEN "gone" ELSE unity[l]]

BrokerStart ==
    /\ up = "down"
    /\ up' = "starting"
    /\ StartPass
    /\ UNCHANGED <<disk, mem, task, procs, hist, faults, outages>>

-----------------------------------------------------------------------------
Owner(l) ==
    \/ AcquireOwner(l) \/ AcquireCreate(l) \/ AcquireAttach(l) \/ AcquireCommit(l)
    \/ AcquirePublish(l) \/ AcquireUndo(l) \/ AcquireUnlink(l)
    \/ ReleaseNative(l) \/ ReleaseSettle(l) \/ ReleaseRecord(l) \/ ReleaseUnlink(l)
    \/ ReleaseForget(l)

Tool(l) ==
    \/ AttachNative(l) \/ AttachWrite(l) \/ AttachPublish(l)
    \/ RemoveAttach(l) \/ RemoveRelease(l) \/ RemoveClean(l) \/ RemoveUnlink(l)
    \/ RemoveRecord(l)

RecoverEntry(l) ==
    \/ RecoverPick(l) \/ RecoverGone(l) \/ RecoverSeize(l) \/ RecoverAttach(l)
    \/ RecoverRelease(l) \/ RecoverClean(l) \/ RecoverUnlink(l)

Requests(l) ==
    \/ AcquireRefused(l) \/ AcquireBegin(l)
    \/ \E k \in {"beat", "pid"} : HeartbeatRead(l, k)
    \/ \E retain \in BOOLEAN : ReleaseBegin(l, retain)
    \/ AttachBegin(l) \/ RemoveBegin(l)

Processes(l) ==
    \/ ClientAcquireFailed(l) \/ ClientReleaseReturned(l) \/ ClientKilled(l)
    \/ UnityStart(l) \/ UnityExit(l) \/ GraceElapses(l) \/ PassOutlastsGrace(l)

Next ==
    \/ \E l \in Leases :
          \/ Requests(l) \/ Owner(l) \/ Tool(l)
          \/ \E k \in {"beat", "pid"} : HeartbeatWrite(l, k)
          \/ RecoverEntry(l) \/ Processes(l)
    \/ RecoverTick \/ RecoverDone \/ BrokerCrash \/ Reboot \/ BrokerStart

Spec == Init /\ [][Next]_vars

\* The broker's goroutines are scheduled, its ticker fires, time passes, and a
\* service that is down is started again, at the latest by the next boot
\* (StartAutomatic). Clients, Unity and tools owe nothing.
Fairness ==
    /\ \A l \in Leases :
          /\ WF_vars(Owner(l)) /\ WF_vars(Tool(l))
          /\ \A k \in {"beat", "pid"} : WF_vars(HeartbeatWrite(l, k))
          /\ WF_vars(RecoverEntry(l))
          /\ WF_vars(GraceElapses(l))
    /\ WF_vars(RecoverTick) /\ WF_vars(RecoverDone) /\ WF_vars(BrokerStart)

FairSpec == Spec /\ Fairness

-----------------------------------------------------------------------------
(* Properties *)

\* While the testplay process of a run is using its lease, nobody else - no
\* Recover pass, whatever copy of the journal it holds, and no retained
\* command - takes the child, its journal, its workspace or, as long as the
\* broker process lives, its mounted Library away.
RunningLeaseMounted ==
    \A l \in Leases : client[l] = "running" =>
        /\ child[l] /\ HasJournal(l) /\ space[l] = "owned"
        /\ children[l] # 0 => att[l] = children[l] /\ library[l]

\* Why it holds. As long as a run claims its lease nobody but its own handlers
\* is at work on it, since every copy of its journal says that it belongs to
\* this boot and its client lives; and the acquire that leads to "running"
\* builds the child, the mount and the session in this order.
Claimed(l) == client[l] \in {"prepared", "acquiring", "running"}

Unseized(l) ==
    Claimed(l) =>
        /\ ~record[l] /\ rec.cur # l /\ Idle(l, "tool")
        /\ journal[l] # None => journal[l].sameBoot
        /\ rec.todo[l] # None => rec.todo[l].sameBoot
        /\ \A k \in Kinds : Idle(l, k) \/ Copy(l, k).sameBoot

Untouched(l) == client[l] = "prepared" => \A k \in Kinds : Idle(l, k)

Building(l) ==
    client[l] = "acquiring" =>
        /\ Idle(l, "beat") /\ Idle(l, "pid")
        /\ task[l]["owner"].pc \in {"idle", "a_owner", "a_create", "a_attach",
                                   "a_commit", "a_publish", "a_undo", "a_unlink"}
        /\ task[l]["owner"].pc \in {"a_create", "a_attach", "a_commit", "a_publish"}
              => space[l] = "owned"
        /\ At(l, "owner", "a_attach") => child[l]
        /\ task[l]["owner"].pc \in {"a_commit", "a_publish"}
              => child[l] /\ HasJournal(l) /\ library[l] /\ att[l] = Ses(l, "owner")

InUse(l) ==
    client[l] = "running" =>
        /\ Idle(l, "owner")
        /\ child[l] /\ HasJournal(l) /\ space[l] = "owned"
        /\ children[l] # 0 => att[l] = children[l] /\ library[l]

LeaseIsExclusive ==
    \A l \in Leases : Unseized(l) /\ Untouched(l) /\ Building(l) /\ InUse(l)

\* Whatever is attached has its journal, its file and its owned workspace, so
\* that recovery finds it after a crash and GC sees its parent referenced.
MountIsAccountedFor ==
    \A l \in Leases : att[l] # 0 => HasJournal(l) /\ child[l] /\ space[l] = "owned"

\* A child file never exists without its journal: ProtectedParentKeys and
\* Recover know a child only through leases/<lease>.json.
ChildIsJournaled == \A l \in Leases : child[l] => HasJournal(l)

\* Once a release(retain) was answered OK, the child, its journal and its
\* retained record stay until their removal is asked for ("Live or retained
\* leases are preserved").
RetainedKept ==
    \A l \in Leases : kept[l] = "yes" => child[l] /\ record[l] /\ HasJournal(l) /\ journal[l].retained

\* A Unity process whose PID the broker has accepted keeps its child even when
\* its testplay client is dead: the PIDs "are durable in the lease journal".
LiveUnityKeepsChild ==
    [][\A l \in Leases : pidKnown[l] /\ UnityAlive(l) /\ child[l] => child'[l]]_vars

\* The lease of a client that is gone does not stay in service: its journal
\* disappears, or says that it is retained or quarantined.
LeaseSettles ==
    \A l \in Leases :
        (~Alive(l) /\ ~UnityAlive(l)) ~>
            (HasJournal(l) => journal[l].retained \/ journal[l].state = "quarantined")
=============================================================================
