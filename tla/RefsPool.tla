------------------------------ MODULE RefsPool ------------------------------
(***************************************************************************)
(* The managed ReFS pool: one VHDX with a ReFS volume, its ownership       *)
(* records on the host and in the volume, the commands of                  *)
(* testplay-refs-probe (setup, status, probe, remove, the three recoveries *)
(* and the diagnosis) and the three drivers that set a pool up, run Unity  *)
(* in workers of it and take it down again (internal/refsworkspace).       *)
(*                                                                         *)
(* A command is a program of its own ("svc"); a driver or the operator     *)
(* calls it and gets its result.  Every call to the system may fail, the   *)
(* process may die at any step, and what is deleted on the volume is gone  *)
(* only when the volume was flushed: a detach without a flush may bring it *)
(* back, a journal then perhaps unreadable.                                *)
(***************************************************************************)
EXTENDS Naturals, FiniteSets

CONSTANTS N,            \* workers of a parallel run
          Kinds,        \* the drivers: "phase2", "parallel", "gnf"
          Commands,     \* what the operator may call after the driver
          MaxFaults, MaxCrashes, MaxCommands

ASSUME RefsPoolAssumption ==
    /\ N \in Nat \ {0}
    /\ Kinds \subseteq {"phase2", "parallel", "gnf"}
    /\ Commands \subseteq {"setup", "status", "probe", "remove", "incomplete", "marker", "diagnose", "corrupt"}
    /\ {MaxFaults, MaxCrashes, MaxCommands} \subseteq Nat

Workers == 1 .. N

VARIABLES
    host,     \* what is on the host: directories, the two records, the VHDX
    mount,    \* the volume is not attached, attached here, or a detach failed or was never made
    disk,     \* the entries of the volume
    pc,       \* where the driver or the operator is
    svc,      \* the command that runs
    drv,      \* the driver's locals
    acq,      \* the goroutine that acquires each worker
    lease,    \* the lease the driver holds on each worker
    rec,      \* the receipt of a recovery in its artifact root
    diag,     \* the worker a diagnosis found corrupt, 0 if none
    faults, crashes, commands,
    told      \* manual recovery was reported, or the process died

vars == <<host, mount, disk, pc, svc, drv, acq, lease, rec, diag, faults, crashes, commands, told>>

(***************************************************************************)
(* The volume.  "new" is written and not flushed, "ghost" deleted and not  *)
(* flushed, "torn" a journal that cannot be decoded.                       *)
(***************************************************************************)
Layout == <<"layout", 0>>
PoolFile == <<"pool", 0>>
ProbeDir == <<"probe", 0>>
Rest == <<"rest", 0>>         \* staging, creation lock or quarantine of a baseline that failed
Marker(w) == <<"marker", w>>
Journal(w) == <<"journal", w>>
Worker(w) == <<"worker", w>>

ItemsOf(w) == {Marker(w), Journal(w), Worker(w)}
Items == {Layout, PoolFile, ProbeDir, Rest} \cup UNION {ItemsOf(w) : w \in Workers}
Residue == Items \ {Layout, PoolFile}
Journals == {Journal(w) : w \in Workers}

Empty == [i \in Items |-> "gone"]
Visible == {i \in Items : disk[i] \in {"new", "here", "torn"}}
Put(d, S) == [i \in Items |-> IF i \in S THEN "here" ELSE d[i]]
Delete(d, S) == [i \in Items |-> IF i \in S /\ d[i] # "gone" THEN "ghost" ELSE d[i]]
\* syntheticCloneProbe makes its directory and deletes it again.
Probed(d) == [d EXCEPT ![ProbeDir] = IF @ \in {"here", "new"} THEN @ ELSE "ghost"]
Flushed(d) == [i \in Items |-> IF d[i] = "ghost" THEN "gone" ELSE IF d[i] = "new" THEN "here" ELSE d[i]]

\* What a detach without a flush may make of the volume.
Settled(d) ==
    {[i \in Items |-> IF i \in back THEN (IF i \in torn THEN "torn" ELSE "here")
                      ELSE IF d[i] \in {"ghost", "new"} THEN "gone" ELSE d[i]] :
        back \in SUBSET {i \in Items : d[i] \in {"ghost", "new"}}, torn \in SUBSET {j \in Journals : d[j] = "ghost"}}

(***************************************************************************)
(* The host.                                                               *)
(***************************************************************************)
NothingOnHost == [dirs |-> 0, pending |-> "none", owner |-> FALSE, vhdx |-> FALSE]

\* rejectPendingOwner, validateExistingPoolPaths, readMetadata(Owner), validateHostOwnership
OwnedPool == host = [dirs |-> 2, pending |-> "none", owner |-> TRUE, vhdx |-> TRUE]

\* recoveryMetadataPath: exactly one record, and one that has the identity of the volume
OneRecord ==
    /\ host.dirs = 2 /\ host.vhdx
    /\ \/ host.owner /\ host.pending = "none"
       \/ ~host.owner /\ host.pending = "volume"

Ready == {Layout, PoolFile} \subseteq Visible          \* WaitReady and compareIdentity
Torn == \E j \in Journals : disk[j] = "torn"            \* inspectWorkerJunctions fails

(***************************************************************************)
(* Commands and faults.                                                    *)
(***************************************************************************)
\* "tail" is the recovery that has called a status or a remove, "zero" what a status measured.
Idle == [op |-> "none", at |-> "none", back |-> "none", who |-> 0, tail |-> "none", safe |-> TRUE, unsure |-> FALSE,
         created |-> FALSE, committed |-> FALSE, bad |-> "nil", zero |-> FALSE, result |-> "nil"]

Call(op, back, who) ==
    /\ svc' = [Idle EXCEPT !.op = op, !.at = "check", !.back = back, !.who = who]
    /\ pc' = "svc"

\* "nil" is success.  An error claims "released", "preserved" or "uncertain", is a cleanup
\* failure without a claim ("failed"), or was found before anything was done ("bare").
Return(result) ==
    /\ svc' = [svc EXCEPT !.at = IF svc.tail = "none" THEN "none" ELSE "resume", !.result = result]
    /\ pc' = IF svc.tail = "none" THEN svc.back ELSE pc
    /\ told' = (told \/ result \in {"uncertain", "failed"})

At(ops, at) == pc = "svc" /\ svc.op \in ops /\ svc.at = at
Goto(at) == svc' = [svc EXCEPT !.at = at] /\ UNCHANGED <<pc, told>>
\* An error while the volume is attached: the deferred function detaches it and reports "bad".
Fail(bad) == svc' = [svc EXCEPT !.at = "unwind", !.bad = bad] /\ UNCHANGED <<pc, told>>

Fault == faults < MaxFaults /\ faults' = faults + 1
NoFault == UNCHANGED faults

Driver == <<drv, acq, lease>>
Counted == <<crashes, commands>>
Frame == UNCHANGED <<Driver, Counted, rec, diag>>

CloseVolume == mount' = "no" /\ disk' \in Settled(disk)
\* The unmount, the detach or the wait for it fails, the handle is closed all the same.
CloseFails == Fault /\ mount' \in {"no", "stuck"} /\ disk' \in Settled(disk)

RemoveDirs(h) == [h EXCEPT !.dirs = IF h.pending = "none" /\ ~h.owner /\ ~h.vhdx THEN 0 ELSE 1]

-----------------------------------------------------------------------------
(***************************************************************************)
(* Setup.                                                                  *)
(***************************************************************************)
SetupCheck ==
    /\ At({"setup"}, "check")
    /\ \/ /\ host.pending = "none" /\ host.dirs < 2 /\ ~host.owner /\ ~host.vhdx
          /\ \/ host' = [host EXCEPT !.dirs = 2] /\ Goto("pending") /\ NoFault
             \/ Fault /\ host' = [host EXCEPT !.dirs = 1] /\ Return("bare")
       \/ /\ ~(host.pending = "none" /\ host.dirs < 2 /\ ~host.owner /\ ~host.vhdx)
          /\ Return("bare") /\ NoFault /\ UNCHANGED host
    /\ UNCHANGED <<mount, disk>> /\ Frame

SetupPending ==
    /\ At({"setup"}, "pending")
    /\ \/ host' = [host EXCEPT !.pending = "bare"] /\ Goto("create") /\ NoFault
       \/ Fault /\ (UNCHANGED host \/ host' = [host EXCEPT !.pending = "bare"]) /\ Return("bare")
    /\ UNCHANGED <<mount, disk>> /\ Frame

SetupTo(at, safe) == svc' = [svc EXCEPT !.at = at, !.safe = safe, !.bad = "nil"] /\ UNCHANGED <<pc, told>>
SetupFails(safe) == svc' = [svc EXCEPT !.at = "close", !.safe = safe, !.bad = "error"] /\ UNCHANGED <<pc, told>>

SetupCreate ==
    /\ At({"setup"}, "create")
    /\ \/ host' = [host EXCEPT !.vhdx = TRUE] /\ NoFault
          /\ svc' = [svc EXCEPT !.at = "identify", !.safe = FALSE, !.created = TRUE] /\ UNCHANGED <<pc, told>>
       \/ Fault /\ (UNCHANGED host \/ host' = [host EXCEPT !.vhdx = TRUE]) /\ SetupFails(TRUE)
    /\ UNCHANGED <<mount, disk>> /\ Frame

SetupIdentify ==
    /\ At({"setup"}, "identify")
    /\ \/ host' = [host EXCEPT !.pending = "vhdx"] /\ SetupTo("format", FALSE) /\ NoFault
       \/ Fault /\ UNCHANGED host /\ (SetupFails(FALSE) \/ SetupFails(TRUE))
    /\ UNCHANGED <<mount, disk>> /\ Frame

SetupFormat ==
    /\ At({"setup"}, "format")
    /\ \/ mount' = "on" /\ SetupTo("layout", FALSE) /\ NoFault
       \/ Fault /\ mount' = "no" /\ SetupFails(TRUE)
       \/ Fault /\ mount' = "stuck" /\ SetupFails(FALSE)
    /\ UNCHANGED <<host, disk>> /\ Frame

SetupLayout ==
    /\ At({"setup"}, "layout")
    /\ \/ disk' = [disk EXCEPT ![Layout] = "new"] /\ SetupTo("clone", FALSE) /\ NoFault
       \/ Fault /\ UNCHANGED disk /\ SetupFails(FALSE)
    /\ UNCHANGED <<host, mount>> /\ Frame

\* syntheticCloneProbe, and the pending record with the identity of the volume
SetupClone ==
    /\ At({"setup"}, "clone")
    /\ \/ host' = [host EXCEPT !.pending = "volume"] /\ SetupTo("metadata", FALSE) /\ NoFault /\ disk' = Probed(disk)
       \/ /\ Fault /\ SetupFails(FALSE) /\ UNCHANGED host
          /\ disk' \in {disk, Probed(disk), [disk EXCEPT ![ProbeDir] = "new"]}
    /\ UNCHANGED mount /\ Frame

\* Bug: the owner record is written as soon as pool.json was read back.
SetupMetadataCommits ==
    /\ At({"setup"}, "metadata")
    /\ disk' = [disk EXCEPT ![PoolFile] = "new"]
    /\ host' = [host EXCEPT !.owner = TRUE, !.pending = "none"]
    /\ svc' = [svc EXCEPT !.at = "close", !.committed = TRUE]
    /\ UNCHANGED <<mount, pc, told>> /\ NoFault /\ Frame

SetupMetadata ==
    /\ At({"setup"}, "metadata")
    /\ \/ disk' = [disk EXCEPT ![PoolFile] = "new"] /\ SetupTo("flush", FALSE) /\ NoFault
       \/ Fault /\ disk' \in {disk, [disk EXCEPT ![PoolFile] = "new"]} /\ SetupFails(FALSE)
    /\ UNCHANGED <<host, mount>> /\ Frame

SetupFlush ==
    /\ At({"setup"}, "flush")
    /\ \/ Ready /\ disk' = Flushed(disk) /\ SetupTo("detach", FALSE) /\ NoFault
       \/ Fault /\ UNCHANGED disk /\ SetupFails(FALSE)
    /\ UNCHANGED <<host, mount>> /\ Frame

\* Both detaches of Setup: after a failure the deferred function tries again and removes nothing.
SetupDetach ==
    /\ \E at \in {"detach", "detach_again"} :
          /\ At({"setup"}, at)
          /\ \/ CloseVolume /\ NoFault /\ SetupTo(IF at = "detach" THEN "reattach" ELSE "commit", TRUE)
             \/ CloseFails /\ UNCHANGED <<pc, told>>
                /\ svc' = [svc EXCEPT !.at = "close", !.unsure = TRUE, !.safe = FALSE, !.bad = "error"]
    /\ UNCHANGED host /\ Frame

SetupReattach ==
    /\ At({"setup"}, "reattach")
    /\ \/ mount' = "on" /\ SetupTo("verify", FALSE) /\ NoFault
       \/ Fault /\ mount' = "no" /\ SetupFails(TRUE)
       \/ Fault /\ mount' = "stuck" /\ SetupFails(FALSE)
    /\ UNCHANGED <<host, disk>> /\ Frame

SetupVerify ==
    /\ At({"setup"}, "verify")
    /\ \/ Ready /\ SetupTo("detach_again", FALSE) /\ NoFault
       \/ Fault /\ SetupFails(FALSE)
    /\ UNCHANGED <<host, mount, disk>> /\ Frame

\* Bug: the link is not taken back when the pending name cannot be removed.
SetupCommitKeepsBoth ==
    /\ At({"setup"}, "commit")
    /\ \/ NoFault /\ host' = [host EXCEPT !.owner = TRUE, !.pending = "none"]
          /\ svc' = [svc EXCEPT !.at = "close", !.committed = TRUE]
       \/ Fault /\ host' = [host EXCEPT !.owner = TRUE]
          /\ svc' = [svc EXCEPT !.at = "close", !.committed = TRUE, !.bad = "error"]
    /\ UNCHANGED <<mount, disk, pc, told>> /\ Frame

\* commitPendingOwner: link the owner, remove the pending name, take the link back if that fails.
SetupCommit ==
    /\ At({"setup"}, "commit")
    /\ \/ /\ host' = [host EXCEPT !.owner = TRUE, !.pending = "none"]
          /\ UNCHANGED <<pc, told>>
          /\ \/ NoFault /\ svc' = [svc EXCEPT !.at = "close", !.committed = TRUE]
             \/ Fault /\ svc' = [svc EXCEPT !.at = "close", !.committed = TRUE, !.bad = "error"]
       \/ Fault /\ UNCHANGED host /\ SetupFails(TRUE)
       \/ /\ faults + 2 <= MaxFaults /\ faults' = faults + 2
          /\ host' = [host EXCEPT !.owner = TRUE] /\ UNCHANGED <<pc, told>>
          /\ svc' = [svc EXCEPT !.at = "close", !.committed = TRUE, !.bad = "error"]
    /\ UNCHANGED <<mount, disk>> /\ Frame

\* A Mount that failed and could not take its attachment back leaves nothing to close.
Mounted == mount = "on" \/ (mount = "stuck" /\ svc.unsure)

\* The deferred function of Setup: detach what is still attached ...
SetupClose ==
    /\ At({"setup"}, "close")
    /\ \/ /\ ~Mounted /\ UNCHANGED <<mount, disk>> /\ NoFault
          /\ svc' = [svc EXCEPT !.at = "rollback"]
       \/ /\ Mounted /\ CloseVolume /\ NoFault
          /\ svc' = [svc EXCEPT !.at = "rollback", !.safe = ~svc.unsure]
       \/ Mounted /\ CloseFails /\ svc' = [svc EXCEPT !.at = "rollback", !.safe = FALSE]
    /\ UNCHANGED <<host, pc, told>> /\ Frame

\* ... and take back what was made, unless it is committed or not known to be ours and detached.
SetupRollback ==
    /\ At({"setup"}, "rollback") /\ UNCHANGED <<host, mount, disk>> /\ Frame
    /\ \/ svc.bad = "nil" /\ ((NoFault /\ Return("nil")) \/ (Fault /\ Return("released")))
       \/ /\ svc.bad # "nil" /\ (svc.committed \/ ~svc.safe) /\ NoFault
          /\ Return(IF svc.safe THEN "released" ELSE "uncertain")
       \/ /\ svc.bad # "nil" /\ ~svc.committed /\ svc.safe /\ NoFault
          /\ Goto(IF svc.created THEN "unmake" ELSE "forget")

SetupUnmake ==
    /\ At({"setup"}, "unmake") /\ UNCHANGED mount /\ Frame
    /\ \/ NoFault /\ Goto("forget") /\ host' = [host EXCEPT !.vhdx = FALSE] /\ disk' = Empty
       \/ Fault /\ Return("uncertain") /\ UNCHANGED <<host, disk>>

\* removeExactPendingOwner
SetupForget ==
    /\ At({"setup"}, "forget") /\ UNCHANGED <<mount, disk>> /\ Frame
    /\ \/ NoFault /\ Goto("dirs") /\ host' = [host EXCEPT !.pending = "none"]
       \/ Fault /\ Return("uncertain") /\ UNCHANGED host

SetupDirs ==
    /\ At({"setup"}, "dirs") /\ UNCHANGED <<mount, disk>> /\ Frame
    /\ \/ NoFault /\ host' = RemoveDirs(host) /\ Return(IF host'.dirs = 0 THEN "released" ELSE "uncertain")
       \/ Fault /\ host' \in {host, [host EXCEPT !.dirs = 1]} /\ Return("uncertain")

SetupStep ==
    \/ SetupCheck \/ SetupPending \/ SetupCreate \/ SetupIdentify \/ SetupFormat \/ SetupLayout
    \/ SetupClone \/ SetupMetadata \/ SetupFlush \/ SetupDetach \/ SetupReattach \/ SetupVerify
    \/ SetupCommit \/ SetupClose \/ SetupRollback \/ SetupUnmake \/ SetupForget \/ SetupDirs

-----------------------------------------------------------------------------
(***************************************************************************)
(* The commands on a pool that exists: each checks the host, attaches the  *)
(* volume, validates it, does its work, detaches, and only then deletes.   *)
(***************************************************************************)
Attaching == {"status", "probe", "remove", "incomplete", "marker", "diagnose", "corrupt", "session"}

\* The commands for one released worker also refuse a mount point that is in use, and every
\* command one that is still a reparse point.
Accepts(op) ==
    IF op = "incomplete" THEN OneRecord
    ELSE OwnedPool /\ (op \in {"marker", "diagnose", "corrupt"} => mount = "no")

CommandCheck ==
    /\ At(Attaching, "check")
    /\ \/ Accepts(svc.op) /\ Goto(IF svc.op = "corrupt" THEN "receipt" ELSE "mount") /\ NoFault
       \/ (~Accepts(svc.op) \/ mount = "stuck") /\ Return("bare") /\ NoFault
       \/ Fault /\ Return("bare")
    /\ UNCHANGED <<host, mount, disk>> /\ Frame

\* Mount and persistentMountFailure; a recovery that called the command reports "preserved"
\* whenever the code of the error is not that of a cleanup that failed.
CommandMount ==
    /\ At(Attaching, "mount")
    /\ \/ mount = "no" /\ mount' = "on" /\ Goto("read") /\ NoFault
       \/ mount = "no" /\ Fault /\ mount' = "no" /\ Return("preserved")
       \/ mount = "no" /\ Fault /\ mount' = "stuck" /\ Return("uncertain")
       \/ mount = "no" /\ svc.tail # "none" /\ Fault /\ mount' = "stuck" /\ Return("preserved")
       \/ mount # "no" /\ UNCHANGED mount /\ NoFault /\ (Return("preserved") \/ Return("uncertain"))
    /\ UNCHANGED <<host, disk>> /\ Frame

\* validateIncompletePoolLayout: the layout, empty but for what a synthetic probe leaves.
Unfinished == Layout \in Visible /\ Visible \subseteq {Layout, ProbeDir}

Readable == IF svc.op = "incomplete" THEN Unfinished ELSE Ready

CommandRead ==
    /\ At(Attaching, "read")
    /\ \/ /\ Readable /\ NoFault
          /\ \/ svc.op = "session" /\ Return("nil")
             \/ svc.op = "incomplete" /\ Goto("close")
             \/ svc.op = "probe" /\ Goto("clone")
             \/ svc.op \in {"marker", "corrupt"} /\ Goto("shape")
             \/ svc.op \in {"status", "remove", "diagnose"} /\ Goto("measure")
       \/ ~Readable /\ NoFault /\ Fail("preserved")
       \/ Fault /\ Fail("preserved")
    /\ UNCHANGED <<host, mount, disk>> /\ Frame

\* An error while the volume is attached.
Unwind ==
    /\ At(Attaching, "unwind")
    /\ \/ CloseVolume /\ NoFault /\ Return(svc.bad)
       \/ CloseFails /\ Return("uncertain")
    /\ UNCHANGED host /\ Frame

\* probe: a clone that fails, or a probe directory that cannot be removed
ProbeClone ==
    /\ At({"probe"}, "clone")
    /\ \/ Goto("measure") /\ NoFault /\ disk' = Probed(disk)
       \/ Fault /\ Fail("preserved") /\ disk' \in {disk, Probed(disk)}
       \/ Fault /\ Fail("failed") /\ disk' = Put(disk, {ProbeDir})
    /\ UNCHANGED <<host, mount>> /\ Frame

Residual == Visible \cap Residue

\* measureMountedResidual fails at a journal that cannot be decoded.
StatusMeasure ==
    /\ At({"status", "probe"}, "measure")
    /\ \/ /\ ~Torn /\ NoFault /\ UNCHANGED <<pc, told>>
          /\ svc' = [svc EXCEPT !.at = IF svc.op = "probe" THEN "flush" ELSE "close", !.zero = (Residual = {})]
       \/ Torn /\ NoFault /\ Fail("preserved")
       \/ Fault /\ Fail("preserved")
    /\ UNCHANGED <<host, mount, disk>> /\ Frame

\* Bug: the directories of workers are counted and their journals and markers are not.
RemoveMeasureWorkers ==
    /\ At({"remove"}, "measure")
    /\ \/ Residual \cap {Worker(w) : w \in Workers} = {} /\ NoFault /\ Goto("close")
       \/ Residual \cap {Worker(w) : w \in Workers} # {} /\ NoFault /\ Fail("preserved")
    /\ UNCHANGED <<host, mount, disk>> /\ Frame

RemoveMeasure ==
    /\ At({"remove"}, "measure")
    /\ \/ Residual = {} /\ NoFault /\ Goto("close")
       \/ Residual # {} /\ NoFault /\ Fail("preserved")
       \/ Fault /\ Fail("preserved")
    /\ UNCHANGED <<host, mount, disk>> /\ Frame

\* A volume flush; a recovery that cannot flush makes no claim.
CommandFlush ==
    /\ At({"probe", "marker", "corrupt"}, "flush")
    /\ \/ disk' = Flushed(disk) /\ NoFault /\ Goto(IF svc.op = "corrupt" THEN "note_flushed" ELSE "close")
       \/ Fault /\ UNCHANGED disk /\ Fail(IF svc.op = "probe" THEN "preserved" ELSE "failed")
    /\ UNCHANGED <<host, mount>> /\ Frame

\* The recoveries go on with a status of their own.
Follow(op) == svc' = [Idle EXCEPT !.op = op, !.at = "check", !.back = svc.back, !.who = svc.who,
                                  !.tail = IF svc.tail = "none" THEN svc.op ELSE svc.tail]

CommandClose ==
    /\ At(Attaching \ {"session", "diagnose"}, "close")
    /\ \/ /\ CloseVolume /\ NoFault
          /\ \/ svc.op \in {"status", "probe"} /\ Goto("post")
             \/ svc.op \in {"remove", "incomplete"} /\ Goto("delete")
             \/ svc.op \in {"marker", "corrupt"} /\ Follow("status") /\ UNCHANGED <<pc, told>>
       \/ CloseFails /\ Return("uncertain")
    /\ UNCHANGED host /\ Frame

\* completePostDetachResidual; after a removal there is nothing left to preserve.
CommandPost ==
    /\ At({"status", "probe", "remove"}, "post")
    /\ \/ NoFault /\ Return("nil")
       \/ Fault /\ Return(IF svc.op = "remove" THEN "uncertain" ELSE "preserved")
    /\ UNCHANGED <<host, mount, disk>> /\ Frame

\* The identity of the VHDX is compared once more before it is deleted; a diagnosis names the
\* owner and the volume it has seen, and is refused for another pool.
DeleteVHDX ==
    /\ At({"remove", "incomplete"}, "delete")
    /\ \/ NoFault /\ host' = [host EXCEPT !.vhdx = FALSE] /\ disk' = Empty /\ diag' = 0 /\ Goto("record")
       \/ Fault /\ UNCHANGED <<host, disk, diag>> /\ Return("preserved")
       \/ Fault /\ UNCHANGED <<host, disk, diag>> /\ Return(IF svc.op = "remove" THEN "preserved" ELSE "failed")
    /\ UNCHANGED <<mount, rec, Driver, Counted>>

Interrupted == IF svc.op = "remove" THEN "uncertain" ELSE "failed"

DeleteRecord ==
    /\ At({"remove", "incomplete"}, "record")
    /\ \/ NoFault /\ host' = [host EXCEPT !.owner = FALSE, !.pending = "none"] /\ Goto("dirs")
       \/ Fault /\ UNCHANGED host /\ Return(Interrupted)
    /\ UNCHANGED <<mount, disk>> /\ Frame

DeleteDirs ==
    /\ At({"remove", "incomplete"}, "dirs")
    /\ \/ NoFault /\ host' = RemoveDirs(host) /\ (IF svc.op = "remove" THEN Goto("post") ELSE Return("nil"))
       \/ Fault /\ host' \in {host, [host EXCEPT !.dirs = 1]} /\ Return(Interrupted)
    /\ UNCHANGED <<mount, disk>> /\ Frame

-----------------------------------------------------------------------------
(***************************************************************************)
(* The recoveries of a released worker.                                    *)
(***************************************************************************)

\* RecoverReleasedWorkerResidual: exactly one marker, and nothing else.
MarkerShape ==
    /\ At({"marker"}, "shape") /\ UNCHANGED <<host, mount>> /\ Frame
    /\ \/ Residual # {Marker(svc.who)} /\ NoFault /\ Fail("preserved") /\ UNCHANGED disk
       \/ Residual = {Marker(svc.who)} /\ NoFault /\ Goto("flush") /\ disk' = Delete(disk, {Marker(svc.who)})
       \/ Residual = {Marker(svc.who)} /\ Fault /\ Fail("failed") /\ UNCHANGED disk

\* classifyWorkerReleaseDiagnosis: one marker, and one journal that cannot be decoded.  Neither
\* it nor validateCorruptRecoveryPhase looks at the directories of synthetic probes; the second
\* ignores the staging of a baseline as well, which never stands beside a released worker.
OfWorkers == Residual \ {ProbeDir}
CorruptShape(w) == OfWorkers = {Marker(w), Journal(w)} /\ disk[Journal(w)] = "torn"

DiagnoseMeasure ==
    /\ At({"diagnose"}, "measure") /\ UNCHANGED <<host, mount, disk, pc, told>> /\ NoFault /\ Frame
    /\ svc' = [svc EXCEPT !.at = "close", !.zero = CorruptShape(svc.who)]

DiagnoseClose ==
    /\ At({"diagnose"}, "close") /\ UNCHANGED <<host, rec, Driver, Counted>>
    /\ \/ CloseVolume /\ NoFault /\ Return("nil") /\ diag' = (IF svc.zero THEN svc.who ELSE diag)
       \/ CloseFails /\ Return("uncertain") /\ UNCHANGED diag

\* openRecoveryArtifactRoot: a new root is made, one without a receipt is refused.
CorruptReceipt ==
    /\ At({"corrupt"}, "receipt") /\ UNCHANGED <<host, mount, disk, diag, Driver, Counted>>
    /\ \/ rec = "none" /\ rec' = "dir" /\ NoFault /\ Goto("mount")
       \/ rec = "dir" /\ UNCHANGED rec /\ NoFault /\ Return("bare")
       \/ rec \notin {"none", "dir"} /\ UNCHANGED rec /\ NoFault /\ Goto("mount")

\* validateCorruptRecoveryPhase: the volume agrees with the receipt.
Agrees ==
    \/ rec \in {"dir", "captured"} /\ CorruptShape(svc.who)
    \/ rec = "journal" /\ OfWorkers = {Marker(svc.who)}
    \/ rec \in {"marker", "flushed", "verified"} /\ OfWorkers = {}

CorruptCompare ==
    /\ At({"corrupt"}, "shape") /\ UNCHANGED <<host, mount, disk>> /\ NoFault /\ Frame
    /\ \/ ~Agrees /\ Fail("preserved")
       \/ Agrees /\ rec = "dir" /\ Goto("note_captured")
       \/ Agrees /\ rec = "captured" /\ Goto("journal")
       \/ Agrees /\ rec = "journal" /\ Goto("marker")
       \/ Agrees /\ rec \notin {"dir", "captured", "journal"} /\ Goto("flush")

\* removeExactHashedFile
CorruptDelete ==
    /\ \/ /\ At({"corrupt"}, "journal") /\ NoFault
          /\ disk' = Delete(disk, {Journal(svc.who)}) /\ Goto("note_journal")
       \/ /\ At({"corrupt"}, "marker") /\ NoFault
          /\ disk' = Delete(disk, {Marker(svc.who)}) /\ Goto("note_marker")
       \/ /\ (At({"corrupt"}, "journal") \/ At({"corrupt"}, "marker")) /\ Fault
          /\ UNCHANGED disk /\ Fail("failed")
    /\ UNCHANGED <<host, mount>> /\ Frame

\* The receipt after each step, and where the recovery goes on.
Notes ==
    {[at |-> "note_captured", rec |-> "captured", next |-> "journal"],
     [at |-> "note_journal", rec |-> "journal", next |-> "marker"],
     [at |-> "note_marker", rec |-> "marker", next |-> "flush"],
     [at |-> "note_flushed", rec |-> "flushed", next |-> "close"]}

\* Bug: the receipt names the step that comes next.
CorruptNoteAhead ==
    /\ \E note \in Notes : At({"corrupt"}, note.at) /\ rec' = note.next /\ NoFault /\ Goto(note.next)
    /\ UNCHANGED <<host, mount, disk, diag, Driver, Counted>>

CorruptNote ==
    /\ \E note \in Notes :
          /\ At({"corrupt"}, note.at)
          /\ \/ rec' = note.rec /\ NoFault /\ Goto(note.next)
             \/ UNCHANGED rec /\ Fault /\ Fail(IF note.rec = "captured" THEN "failed" ELSE "preserved")
    /\ UNCHANGED <<host, mount, disk, diag, Driver, Counted>>

\* Back in the recovery: the status proves that nothing is left, and the pool is removed.
Up(result) == svc' = [svc EXCEPT !.op = svc.tail, !.at = "none", !.result = result] /\ pc' = svc.back
Kept(result) == IF result = "bare" THEN "preserved" ELSE result

Resume ==
    /\ pc = "svc" /\ svc.at = "resume" /\ UNCHANGED <<host, mount, disk, diag, Driver, Counted>>
    /\ \/ /\ svc.op = "status" /\ (svc.result # "nil" \/ ~svc.zero) /\ NoFault
          /\ Up(IF svc.result = "nil" THEN "preserved" ELSE Kept(svc.result)) /\ UNCHANGED <<rec, told>>
       \/ /\ svc.op = "status" /\ svc.result = "nil" /\ svc.zero
          /\ \/ /\ Follow("remove") /\ NoFault /\ UNCHANGED <<pc, told>>
                /\ rec' = IF svc.tail = "corrupt" THEN "verified" ELSE rec
             \/ /\ svc.tail = "corrupt" /\ Fault /\ Up("preserved") /\ UNCHANGED <<rec, told>>
       \/ /\ svc.op = "remove" /\ svc.result # "nil" /\ NoFault
          /\ Up(Kept(svc.result)) /\ UNCHANGED <<rec, told>>
       \/ /\ svc.op = "remove" /\ svc.result = "nil" /\ UNCHANGED told
          /\ \/ /\ Up("nil") /\ NoFault
                /\ rec' = IF svc.tail = "corrupt" THEN "removed" ELSE rec
             \/ svc.tail = "corrupt" /\ Fault /\ Up("preserved") /\ UNCHANGED rec

CommandStep ==
    \/ CommandCheck \/ CommandMount \/ CommandRead \/ Unwind \/ ProbeClone \/ StatusMeasure
    \/ RemoveMeasure \/ CommandFlush \/ CommandClose \/ CommandPost
    \/ DeleteVHDX \/ DeleteRecord \/ DeleteDirs
    \/ MarkerShape \/ DiagnoseMeasure \/ DiagnoseClose
    \/ CorruptReceipt \/ CorruptCompare \/ CorruptDelete \/ CorruptNote \/ Resume

-----------------------------------------------------------------------------
(***************************************************************************)
(* The drivers.  RunUnityPhase2 runs one worker; RunUnityParallel and      *)
(* RunGNFUnity acquire N in goroutines.  What a worker writes is taken to  *)
(* last, its deletions last when they are flushed.                         *)
(***************************************************************************)
Used == IF drv.kind = "phase2" THEN {1} ELSE Workers
Last == IF drv.kind = "phase2" THEN 1 ELSE N
HeldBy == {w \in Used : lease[w] = "held"}

Here(label) == pc = label
ToPc(label) == pc' = label
Quiet == UNCHANGED <<host, svc, rec, diag, crashes, commands, told>>
CallFrom(op, back) == Call(op, back, 0) /\ UNCHANGED told
Preserve == drv' = [drv EXCEPT !.preserve = drv.pool]

\* Release of a worker: everything of it goes, or a part, the journal last.
ReleaseOk(w) == disk' = Delete(disk, ItemsOf(w))
ReleaseFails(w) == \E S \in {{}, {Worker(w)}, {Worker(w), Marker(w)}} : disk' = Delete(disk, S)

\* The volume has what the held workers have, and no more.
OnlyHeld(d) ==
    \A w \in Used : \A i \in ItemsOf(w) : d[i] \in {"new", "here"} <=> w \in HeldBy

DriverStart ==
    /\ Here("start") /\ CallFrom("setup", "d_setup")
    /\ UNCHANGED <<host, mount, disk, Driver, rec, diag, Counted>> /\ NoFault

\* What the summary says of a setup that failed: gnf takes lack of space as released.
SetupFailed ==
    IF drv.kind = "phase2" THEN {IF svc.result = "bare" THEN "not-started" ELSE svc.result}
    ELSE {"not-started"} \cup (IF drv.kind = "gnf" /\ host.dirs = 0 THEN {"released"} ELSE {})

DriverSetup ==
    /\ Here("d_setup") /\ UNCHANGED <<host, mount, disk, acq, lease, rec, diag, Counted, told>> /\ NoFault
    /\ \/ /\ svc.result = "nil" /\ Call("session", "d_mount", 0)
          /\ drv' = [drv EXCEPT !.pool = TRUE]
       \/ /\ svc.result # "nil" /\ ToPc("ended") /\ UNCHANGED svc
          /\ \E state \in SetupFailed : drv' = [drv EXCEPT !.cleanup = state]

DriverMount ==
    /\ Here("d_mount") /\ Quiet /\ NoFault /\ UNCHANGED <<mount, disk, acq, lease>>
    /\ \/ svc.result = "nil" /\ ToPc("d_baseline") /\ drv' = [drv EXCEPT !.mounted = TRUE]
       \/ svc.result # "nil" /\ ToPc("u_release") /\ UNCHANGED drv

\* Ensure, Verify and the sizing; a run for the sizing only ends here.
Baseline ==
    /\ Here("d_baseline") /\ Quiet /\ UNCHANGED <<mount, drv, lease>>
    /\ \/ /\ NoFault /\ ~drv.sizing /\ ToPc("d_acquire") /\ UNCHANGED disk
          /\ acq' = [w \in Workers |-> IF w \in Used THEN "ready" ELSE "none"]
       \/ /\ NoFault /\ drv.sizing /\ UNCHANGED <<disk, acq>>
          /\ ToPc(IF drv.kind = "parallel" THEN "s_flush" ELSE "u_release")
       \/ /\ Fault /\ ToPc("u_release") /\ UNCHANGED acq
          /\ disk' \in {disk, Put(disk, {Rest})}

\* The goroutines; those of gnf go on when the driver has given up.
AcquireStart(w) ==
    /\ acq[w] = "ready" /\ Quiet /\ NoFault /\ UNCHANGED <<mount, pc, drv, lease>>
    /\ \/ mount = "on" /\ disk' = Put(disk, {Journal(w), Marker(w)}) /\ acq' = [acq EXCEPT ![w] = "working"]
       \/ mount # "on" /\ UNCHANGED disk /\ acq' = [acq EXCEPT ![w] = "error"]

AcquireEnd(w) ==
    /\ acq[w] = "working" /\ Quiet /\ UNCHANGED <<mount, pc, drv, lease>>
    /\ \/ mount = "on" /\ NoFault /\ disk' = Put(disk, {Worker(w)}) /\ acq' = [acq EXCEPT ![w] = "ok"]
       \/ mount # "on" /\ NoFault /\ UNCHANGED disk /\ acq' = [acq EXCEPT ![w] = "error"]
       \/ mount = "on" /\ Fault /\ acq' = [acq EXCEPT ![w] = "error"] /\ (UNCHANGED disk \/ ReleaseOk(w))

\* parallel waits for every outcome, gnf leaves at the first that failed.
Collect(w) ==
    /\ Here("d_acquire") /\ acq[w] \in {"ok", "error"} /\ Quiet /\ NoFault /\ UNCHANGED <<mount, disk, drv>>
    /\ lease' = [lease EXCEPT ![w] = IF acq[w] = "ok" THEN "held" ELSE @]
    /\ acq' = [acq EXCEPT ![w] = IF acq[w] = "ok" THEN "taken" ELSE "failed"]
    /\ LET open == {v \in Used : acq'[v] \in {"ready", "working", "ok", "error"}}
           bad == \E v \in Used : acq'[v] = "failed"
       IN ToPc(IF bad /\ (drv.kind # "parallel" \/ open = {}) THEN "u_release"
               ELSE IF ~bad /\ open = {} THEN "d_check" ELSE "d_acquire")

\* One marker, journal and worker for each lease: validateParallelAcquire.
Checks ==
    /\ Here("d_check") /\ Quiet /\ UNCHANGED <<mount, disk, drv, acq, lease>>
    /\ \/ NoFault /\ OnlyHeld(disk) /\ ToPc("d_edit")
       \/ Fault /\ ToPc("u_release")

\* One Unity in each worker; the round ends when the last of them has ended.
RunRound(round, next) ==
    /\ Here(round) /\ Quiet /\ UNCHANGED <<mount, disk, drv, acq, lease>>
    /\ \/ NoFault /\ ToPc(next)
       \/ Fault /\ ToPc("u_release")

EditRound == RunRound("d_edit", "d_play")

\* The second round and the comparisons after it.
PlayRound == RunRound("d_play", IF Last = 1 THEN "l_release" ELSE "d_release")

Tests == Checks \/ EditRound \/ PlayRound

\* Every worker but the last: release, flush, and count what remains.
ReleaseNext ==
    /\ Here("d_release") /\ Quiet /\ UNCHANGED <<mount, drv, acq>>
    /\ \E w \in HeldBy :
          /\ \A v \in HeldBy : w <= v
          /\ \/ NoFault /\ ReleaseOk(w) /\ lease' = [lease EXCEPT ![w] = "released"] /\ ToPc("d_flush")
             \/ Fault /\ ReleaseFails(w) /\ UNCHANGED lease /\ ToPc("u_release")

FlushNext ==
    /\ Here("d_flush") /\ Quiet /\ UNCHANGED <<mount, drv, acq, lease>>
    /\ \/ NoFault /\ disk' = Flushed(disk) /\ OnlyHeld(disk') /\ ToPc(IF HeldBy = {Last} THEN "l_release" ELSE "d_release")
       \/ Fault /\ UNCHANGED disk /\ ToPc("u_release")

-----------------------------------------------------------------------------
(* runWorkerReleaseDurability, for the last worker.                        *)
LastRelease ==
    /\ Here("l_release") /\ Quiet /\ UNCHANGED <<mount, acq>> /\ ToPc("l_flush")
    /\ \/ NoFault /\ ReleaseOk(Last) /\ lease' = [lease EXCEPT ![Last] = "released"] /\ UNCHANGED drv
       \/ Fault /\ ReleaseFails(Last) /\ UNCHANGED lease /\ drv' = [drv EXCEPT !.error = TRUE]

\* The flush is attempted whatever happened; then only zero goes on.
LastFlush ==
    /\ Here("l_flush") /\ Quiet /\ UNCHANGED <<mount, acq, lease>>
    /\ \/ /\ NoFault /\ disk' = Flushed(disk)
          /\ \/ ~drv.error /\ Residual = {} /\ ToPc("l_detach") /\ UNCHANGED drv
             \/ (drv.error \/ Residual # {}) /\ ToPc("u_release") /\ Preserve
       \/ Fault /\ UNCHANGED disk /\ ToPc("u_release") /\ Preserve

LastDetach ==
    /\ Here("l_detach") /\ UNCHANGED <<host, acq, lease, rec, diag, Counted, told>>
    /\ \/ CloseVolume /\ NoFault /\ drv' = [drv EXCEPT !.mounted = FALSE] /\ Call("status", "l_status", 0)
       \/ CloseFails /\ ToPc("u_release") /\ Preserve /\ UNCHANGED svc

LastStatus ==
    /\ Here("l_status") /\ UNCHANGED <<host, mount, disk, acq, lease, rec, diag, Counted, told>>
    /\ \/ svc.result = "nil" /\ svc.zero /\ NoFault /\ Call("remove", "l_remove", 0) /\ UNCHANGED drv
       \/ ~(svc.result = "nil" /\ svc.zero) /\ NoFault /\ ToPc("u_release") /\ Preserve /\ UNCHANGED svc
       \/ Fault /\ ToPc("u_release") /\ Preserve /\ UNCHANGED svc

LastRemove ==
    /\ Here("l_remove") /\ Quiet /\ NoFault /\ UNCHANGED <<mount, disk, acq, lease>> /\ ToPc("u_release")
    /\ \/ svc.result = "nil" /\ drv' = [drv EXCEPT !.pool = FALSE]
       \/ svc.result # "nil" /\ Preserve

-----------------------------------------------------------------------------
(* parallel, sizing only: flush, detach and remove, and no more.           *)
SizingFlush ==
    /\ Here("s_flush") /\ Quiet /\ UNCHANGED <<mount, drv, acq, lease>>
    /\ \/ NoFault /\ disk' = Flushed(disk) /\ ToPc("s_close")
       \/ Fault /\ UNCHANGED disk /\ ToPc("u_release")

SizingClose ==
    /\ Here("s_close") /\ UNCHANGED <<host, acq, lease, rec, diag, Counted, told>>
    /\ \/ CloseVolume /\ NoFault /\ drv' = [drv EXCEPT !.mounted = FALSE] /\ Call("remove", "s_remove", 0)
       \/ CloseFails /\ ToPc("u_release") /\ UNCHANGED <<drv, svc>>

SizingRemove ==
    /\ Here("s_remove") /\ Quiet /\ NoFault /\ UNCHANGED <<mount, disk, acq, lease>> /\ ToPc("u_release")
    /\ drv' = [drv EXCEPT !.pool = (svc.result # "nil")]

-----------------------------------------------------------------------------
(* The deferred function of a driver.                                      *)

\* errors.As finds the first *Error of a join; those of the native layer are "plain".
Join(err, new) == IF new # "nil" /\ err \in {"nil", "plain"} THEN new ELSE err

Joined(err) == drv' = [drv EXCEPT !.cerr = Join(@, err)]

UnwindRelease ==
    /\ Here("u_release") /\ Quiet /\ UNCHANGED <<mount, acq>>
    /\ \/ /\ HeldBy \ drv.tried = {} /\ NoFault /\ ToPc("u_flush") /\ UNCHANGED <<disk, drv, lease>>
       \/ \E w \in HeldBy \ drv.tried :
             /\ \A v \in HeldBy \ drv.tried : w <= v
             /\ UNCHANGED pc
             /\ \/ /\ NoFault /\ ReleaseOk(w)
                   /\ lease' = [lease EXCEPT ![w] = "released"]
                   /\ drv' = [drv EXCEPT !.tried = @ \cup {w}, !.fresh = TRUE]
                \/ /\ Fault /\ ReleaseFails(w) /\ UNCHANGED lease
                   /\ drv' = [drv EXCEPT !.tried = @ \cup {w}, !.cerr = Join(@, "bare")]

\* phase2 flushes only when this function released its worker.
UnwindFlush ==
    /\ Here("u_flush") /\ Quiet /\ UNCHANGED <<mount, acq, lease>> /\ ToPc("u_close")
    /\ LET flushes == drv.mounted /\ (drv.kind = "phase2" => drv.fresh)
       IN \/ ~flushes /\ NoFault /\ UNCHANGED <<disk, drv>>
          \/ flushes /\ mount # "no" /\ NoFault /\ disk' = Flushed(disk) /\ UNCHANGED drv
          \/ flushes /\ ((mount # "no" /\ Fault) \/ (mount # "on" /\ NoFault)) /\ UNCHANGED disk /\ Joined("plain")

UnwindClose ==
    /\ Here("u_close") /\ Quiet /\ UNCHANGED <<acq, lease>> /\ ToPc("u_remove")
    /\ \/ ~drv.mounted /\ NoFault /\ UNCHANGED <<mount, disk, drv>>
       \/ drv.mounted /\ CloseVolume /\ NoFault /\ drv' = [drv EXCEPT !.mounted = FALSE]
       \/ /\ drv.mounted /\ CloseFails
          /\ drv' = [drv EXCEPT !.mounted = FALSE, !.cerr = Join(@, "plain"), !.clean = FALSE]

UnwindRemove ==
    /\ Here("u_remove") /\ NoFault /\ UNCHANGED <<host, mount, disk, acq, lease, rec, diag, Counted, told>>
    /\ \/ drv.pool /\ ~drv.preserve /\ HeldBy = {} /\ Call("remove", "u_removed", 0) /\ UNCHANGED drv
       \/ ~(drv.pool /\ ~drv.preserve /\ HeldBy = {}) /\ ToPc("u_end") /\ UNCHANGED <<svc, drv>>

UnwindRemoved ==
    /\ Here("u_removed") /\ Quiet /\ NoFault /\ UNCHANGED <<mount, disk, acq, lease>> /\ ToPc("u_end")
    /\ \/ svc.result = "nil" /\ drv' = [drv EXCEPT !.pool = FALSE]
       \/ svc.result # "nil" /\ Joined(svc.result)

\* Bug: a pool that is gone counts as released whatever else failed.
ReleasedIfGone ==
    /\ Here("u_end") /\ Quiet /\ NoFault /\ UNCHANGED <<mount, disk, lease>> /\ ToPc("ended")
    /\ acq' = [w \in Workers |-> "none"]
    /\ drv' = [drv EXCEPT !.cleanup = IF drv.cerr \in {"nil", "preserved"} THEN "released" ELSE "uncertain"]

\* cleanupWasPreserved, and only phase2 asks for a clean detach as well.
UnwindEnd ==
    /\ Here("u_end") /\ Quiet /\ NoFault /\ UNCHANGED <<mount, disk, lease>> /\ ToPc("ended")
    /\ acq' = [w \in Workers |-> "none"]
    /\ drv' = [drv EXCEPT !.cleanup =
                  IF ~drv.pool /\ drv.cerr = "nil" THEN "released"
                  ELSE IF drv.pool /\ drv.cerr \in {"nil", "preserved"} /\ (drv.kind = "phase2" => drv.clean)
                       THEN "preserved" ELSE "uncertain"]

DriverStep ==
    \/ DriverStart \/ DriverSetup \/ DriverMount \/ Baseline \/ Tests \/ ReleaseNext \/ FlushNext
    \/ \E w \in Workers : AcquireStart(w) \/ AcquireEnd(w) \/ Collect(w)
    \/ LastRelease \/ LastFlush \/ LastDetach \/ LastStatus \/ LastRemove
    \/ SizingFlush \/ SizingClose \/ SizingRemove
    \/ UnwindRelease \/ UnwindFlush \/ UnwindClose \/ UnwindRemove \/ UnwindRemoved \/ UnwindEnd

-----------------------------------------------------------------------------
(***************************************************************************)
(* The operator, and what comes from outside.                              *)
(***************************************************************************)
Resting == pc \in {"idle", "ended"}

\* The ZIP of a phase 2 run that released this worker and failed afterwards.  The recovery asks
\* for an error text that an earlier version of that driver wrote: this run stands for it.
Evidence(w) == drv.kind = "phase2" /\ lease[w] = "released" /\ drv.cleanup # "released"

\* The corrupt recovery needs a diagnosis of this worker and that evidence; its artifact root
\* may be a new one.
Operator ==
    /\ Resting /\ commands < MaxCommands /\ commands' = commands + 1
    /\ UNCHANGED <<host, mount, disk, Driver, diag, crashes, told>> /\ NoFault
    /\ \E op \in Commands, w \in Workers :
          /\ op \notin {"marker", "diagnose", "corrupt"} => w = 1
          /\ op = "corrupt" => diag = w /\ Evidence(w)
          /\ svc' = [Idle EXCEPT !.op = op, !.at = "check", !.back = "idle", !.who = w]
          /\ rec' \in (IF op = "corrupt" THEN {rec, "none"} ELSE {rec})
    /\ pc' = "svc"

\* The process dies: the disk goes with its handle, the mount point stays.
Crash ==
    /\ ~Resting /\ crashes < MaxCrashes /\ crashes' = crashes + 1
    /\ pc' = "idle" /\ svc' = Idle /\ told' = TRUE
    /\ acq' = [w \in Workers |-> "none"]
    /\ \/ mount = "no" /\ UNCHANGED <<mount, disk>>
       \/ mount # "no" /\ mount' = "stuck" /\ disk' \in Settled(disk)
    /\ UNCHANGED <<host, drv, lease, rec, diag, commands>> /\ NoFault

\* The operator removes the mount point that is left.
ClearMount ==
    /\ Resting /\ mount = "stuck" /\ mount' = "no"
    /\ UNCHANGED <<host, disk, pc, svc, Driver, rec, diag, Counted, told>> /\ NoFault

NewDriver(kind, sizing) ==
    [kind |-> kind, sizing |-> sizing, pool |-> FALSE, mounted |-> FALSE, preserve |-> FALSE, error |-> FALSE,
     tried |-> {}, fresh |-> FALSE, clean |-> TRUE, cerr |-> "nil", cleanup |-> "none"]

Init ==
    /\ host = NothingOnHost /\ mount = "no" /\ disk = Empty /\ svc = Idle
    /\ \/ pc = "idle" /\ drv = NewDriver("none", FALSE)
       \/ \E kind \in Kinds, sizing \in BOOLEAN :
             pc = "start" /\ drv = NewDriver(kind, sizing) /\ (sizing => kind # "phase2")
    /\ acq = [w \in Workers |-> "none"] /\ lease = [w \in Workers |-> "none"]
    /\ rec = "none" /\ diag = 0 /\ faults = 0 /\ crashes = 0 /\ commands = 0 /\ told = FALSE

Next == SetupStep \/ CommandStep \/ DriverStep \/ Operator \/ Crash \/ ClearMount

Spec == Init /\ [][Next]_vars

-----------------------------------------------------------------------------
(***************************************************************************)
(* Properties.                                                             *)
(***************************************************************************)
Answers == {"nil", "bare", "failed", "released", "preserved", "uncertain"}

\* The values of the variables: what is on the host and in the volume, and what was reported.
TypeOK ==
    /\ host \in [dirs : 0 .. 2, pending : {"none", "bare", "vhdx", "volume"}, owner : BOOLEAN, vhdx : BOOLEAN]
    /\ mount \in {"no", "on", "stuck"}
    /\ disk \in [Items -> {"gone", "new", "here", "ghost", "torn"}]
    /\ svc.result \in Answers /\ svc.op \in Commands \cup Attaching \cup {"none", "setup"}
    /\ acq \in [Workers -> {"none", "ready", "working", "ok", "error", "taken", "failed"}]
    /\ lease \in [Workers -> {"none", "held", "released"}]
    /\ drv.cleanup \in {"none", "not-started", "released", "preserved", "uncertain"}
    /\ rec \in {"none", "dir", "captured", "journal", "marker", "flushed", "verified", "removed"}
    /\ diag \in 0 .. N
    /\ faults \in 0 .. MaxFaults /\ crashes \in 0 .. MaxCrashes /\ commands \in 0 .. MaxCommands

\* A pool that has its owner record has a volume whose layout and pool.json are durable: the
\* record is committed last, after a flush and a second attach that read them back.
OwnerIsProven == host.owner /\ host.vhdx => disk[Layout] = "here" /\ disk[PoolFile] = "here"

\* The goroutines that RunGNFUnity no longer waits for.
Abandoned(w) == drv.kind = "gnf" /\ acq[w] \in {"working", "ok", "error"}

\* The VHDX of a committed pool is deleted only when no lease is held and no worker, marker or
\* journal is in the volume; the goroutines that gnf left behind are not covered by this.
RemovedOnlyWhenEmpty ==
    [][host.owner /\ host.vhdx /\ ~host'.vhdx =>
          \A w \in Workers : lease[w] # "held" /\ (ItemsOf(w) \cap Visible = {} \/ Abandoned(w))]_vars

\* What a setup or a driver that calls its pool "released" has left: nothing, unless the setup
\* failed after it had committed its owner record (pool.go:179), and then the whole pool.
Released == host = NothingOnHost \/ (svc.op = "setup" /\ svc.committed /\ host.owner /\ host.vhdx)

\* The VHDX with a record of whose it is.  The corrupt recovery says "preserved" of a pool that
\* it has removed when it cannot write that into its receipt (corrupt_release_recovery.go:255).
Preserved ==
    \/ host.vhdx /\ (host.owner \/ host.pending # "none")
    \/ svc.op = "corrupt" /\ rec = "verified" /\ host = NothingOnHost

\* What is reported is so, of every command and driver: a removal and a recovery that succeed
\* leave nothing on the host, "released" and "preserved" leave what the two definitions above
\* say, and so does the "preserved" of a driver, unless the removal it called has ended in a
\* report of its own ("told").
CleanupStateIsTrue ==
    /\ Resting /\ svc.at = "none" =>
          /\ svc.result = "nil" /\ svc.op \in {"remove", "incomplete", "marker", "corrupt"} => host = NothingOnHost
          /\ svc.result = "released" => Released
          /\ svc.result = "preserved" => Preserved
    /\ pc = "ended" /\ drv.pool /\ drv.cleanup = "preserved" => host.vhdx \/ told
    /\ pc = "ended" /\ drv.cleanup = "released" => Released

\* The pools that a command takes away: remove an empty one, recover-released-worker-residual
\* one with a single marker, and recover-corrupt-released-worker-residual one with a marker and
\* a torn journal of a worker whose evidence is there.
Takes ==
    /\ OwnedPool /\ Ready
    /\ \/ Residual = {}
       \/ \E w \in Workers : Residual = {Marker(w)} \/ (Residual = {Marker(w), Journal(w)} /\ CorruptShape(w) /\ Evidence(w))

\* What no command takes, although nobody was told: the directories and at most a bare record
\* of a setup that failed before it made the VHDX (pool.go:109, 128), although a setup goes on
\* from the first of the directories; both records, after two failures in commitPendingOwner
\* (pool_transaction.go:101); the directory of a synthetic probe that came back because the
\* probe failed before its flush; and what the baseline or the workers of a driver have left,
\* that has kept its pool and said so (pool.go:586-631).
DeadEnd ==
    \/ ~host.owner /\ ~host.vhdx /\ host.pending \in {"none", "bare"}
    \/ faults > 1 /\ host.owner /\ host.pending # "none"
    \/ OwnedPool /\ Ready /\ Residual = {ProbeDir}
    \/ OwnedPool /\ Ready /\ drv.pool /\ drv.cleanup \in {"preserved", "uncertain"}

\* As long as nobody was told of a recovery by hand and no process died, what is on the host is
\* a pool that a command takes, on the host and in the volume, or one of the dead ends above:
\* the commands of the operator leave none behind but those of a setup or a probe that failed.
NoSilentDeadEnd == Resting /\ ~told /\ host # NothingOnHost => Takes \/ DeadEnd
=============================================================================
