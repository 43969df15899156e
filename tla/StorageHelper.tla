--------------------------- MODULE StorageHelper ---------------------------
(***************************************************************************)
(* The storage helper (cmd/testplay-storage-helper, internal/              *)
(* storagehelper) over the copy-on-write backend of macOS and Linux        *)
(* (internal/vhdxstorage/lifecycle_unix.go): a child process that clones a *)
(* parent directory for one workspace lease, links the Library of a        *)
(* project to the clone, and takes both away on release, shutdown or end   *)
(* of input.                                                               *)
(*                                                                         *)
(* A process serves one request at a time.  Around it the process may die  *)
(* or be interrupted, the system may fail any call, and other programs may *)
(* replace what lies at the two paths.  A later process on the same store  *)
(* finds the journals.  Repeating a recorded request id changes nothing    *)
(* and is left out.                                                        *)
(***************************************************************************)
EXTENDS Naturals, FiniteSets

CONSTANTS Ids,              \* request ids
          MaxProcesses,     \* helpers started one after the other
          MaxFaults, MaxTampers, MaxCrashes

ASSUME StorageHelperAssumption == {MaxProcesses, MaxFaults, MaxTampers, MaxCrashes} \subseteq Nat

VARIABLES
    journal,    \* leases/<id>.json of each lease, "none" if there is none
    child,      \* what lies at the child path
    grave,      \* what lies at the .testplay-delete-<random> path
    mount,      \* what lies at the mount path
    pc, cur,    \* where the helper is, and the request it serves
    active,     \* the active lease, 0 if none
    lease,      \* what is known of it
    next,       \* the next lease id
    records,    \* requestRecords: the ids that were answered
    released,   \* the leases this process has released
    interrupted,            \* was the context of main cancelled?
    granted,    \* history: the leases this process has handed out
    freed,      \* history: the leases that were answered as released
    exit,                   \* the exit code of the last process
    processes, faults, tampers, crashes

memory == <<active, lease, records, released, interrupted>>
history == <<granted, freed, exit>>
limits == <<processes, tampers, crashes>>
disk == <<journal, child, grave, mount>>
vars == <<disk, pc, cur, memory, next, history, limits, faults>>

Leases == 1 .. Cardinality(Ids) * MaxProcesses
Live == {"requested", "creating-child", "mounting", "ready", "releasing", "unmounting", "quarantined"}
NoLease == [delete |-> FALSE, existed |-> FALSE, owned |-> FALSE, released |-> FALSE]

Orphans == {l \in Leases : journal[l] \in Live}

Fault == faults < MaxFaults /\ faults' = faults + 1
NoFault == UNCHANGED faults
Go(at) == pc' = at

\* JournalStore.Write: the journal is replaced in one piece, or not at all.
Record(state) == journal' = [journal EXCEPT ![active] = state]

-----------------------------------------------------------------------------
\* The response is recorded under the id of the request and sent; the end of
\* the input has no id, and its outcome is the exit code.
Answer(ok) ==
    /\ records' = IF cur.op = "eof" THEN records ELSE records \cup {cur.id}
    /\ IF cur.op = "eof" \/ (cur.op = "shutdown" /\ ok)
       THEN Go("exited") /\ exit' = IF ok THEN "zero" ELSE "one"
       ELSE Go("idle") /\ UNCHANGED exit

Request(op) == pc = "idle" /\ \E id \in Ids \ records : cur' = [op |-> op, id |-> id]

\* A request that is answered at once.
Reply(op, ok) ==
    /\ pc = "idle"
    /\ \E id \in Ids \ records : cur' = [op |-> op, id |-> id] /\ records' = records \cup {id}
    /\ IF op = "shutdown" /\ ok THEN Go("exited") /\ exit' = "zero" ELSE Go("idle") /\ UNCHANGED exit

\* validateAcquirePaths: the child is new, the mount absent or an empty directory.
PathsFree == child = "none" /\ mount \in {"absent", "dir"}

AcquireRefused ==
    /\ Reply("acquire", FALSE)
    /\ \/ NoFault /\ (active # 0 \/ ~PathsFree \/ Orphans # {})
       \/ Fault
    /\ UNCHANGED <<disk, active, lease, released, interrupted, next, granted, freed, limits>>

Acquire ==
    /\ Request("acquire")
    /\ active = 0 /\ PathsFree /\ Orphans = {} /\ NoFault
    /\ Go("a_journal")
    /\ UNCHANGED <<disk, memory, next, history, limits>>

\* The journal comes before everything else.
AcquireJournal ==
    /\ pc = "a_journal"
    /\ \/ /\ NoFault /\ next \in Leases
          /\ active' = next /\ next' = next + 1
          /\ journal' = [journal EXCEPT ![next] = "requested"]
          /\ \E delete \in BOOLEAN : lease' = [NoLease EXCEPT !.delete = delete]
          /\ Go("a_begin") /\ UNCHANGED <<records, exit>>
       \/ Fault /\ Answer(FALSE) /\ UNCHANGED <<journal, active, lease, next>>
    /\ UNCHANGED <<child, grave, mount, cur, released, interrupted, granted, freed, limits>>

\* A step of the backend: it goes on at "then", or fails and cleans up from "else".
Work(at, then, else, effect) ==
    /\ pc = at /\ UNCHANGED <<cur, records, active, released, interrupted, next, history, limits, grave>>
    /\ \/ effect /\ NoFault /\ Go(then)
       \/ Fault /\ Go(else) /\ UNCHANGED <<journal, child, mount, lease>>

\* unixBackend.Acquire looks at both paths again; up to here there is nothing to clean up.
AcquireBegin ==
    /\ pc = "a_begin" /\ UNCHANGED <<disk, cur, records, active, released, interrupted, next, history, limits>>
    /\ \/ /\ ~interrupted /\ PathsFree /\ NoFault /\ Go("a_create")
          /\ lease' = [lease EXCEPT !.existed = mount = "dir"]
       \/ (interrupted \/ ~PathsFree) /\ NoFault /\ Go("f_end") /\ UNCHANGED lease
       \/ Fault /\ Go("f_end") /\ UNCHANGED lease

AcquireCreate == Work("a_create", "a_clone", "f_dir", Record("creating-child") /\ UNCHANGED <<child, mount, lease>>)

\* A clone that fails, or that an interrupt ends, may leave a part of the child.
AcquireClone ==
    \/ Work("a_clone", "a_own", "f_dir", child' = "bare" /\ UNCHANGED <<journal, mount, lease>>)
    \/ /\ pc = "a_clone" /\ (Fault \/ (interrupted /\ NoFault)) /\ child' \in {"none", "bare"} /\ Go("f_dir")
       /\ UNCHANGED <<journal, grave, mount, cur, memory, next, history, limits>>

\* establishChildOwnership: the identity of the child and the token in its marker.
AcquireOwn ==
    Work("a_own", "a_mounting", "f_dir",
         child' = "mine" /\ lease' = [lease EXCEPT !.owned = TRUE] /\ UNCHANGED <<journal, mount>>)

\* The child is measured and "mounting" is noted.
AcquireMounting == Work("a_mounting", "a_unmake", "f_dir", Record("mounting") /\ UNCHANGED <<child, mount, lease>>)

\* os.Remove takes an empty directory, or whatever single file is there by now;
\* it fails where nothing is, and on a directory that is not empty.
AcquireUnmake ==
    \/ /\ lease.existed /\ mount # "absent"
       /\ Work("a_unmake", "a_link", "f_dir", mount' = "absent" /\ UNCHANGED <<journal, child, lease>>)
    \/ /\ pc = "a_unmake" /\ NoFault
       /\ Go(IF lease.existed THEN "f_dir" ELSE "a_link") /\ (lease.existed => mount # "dir")
       /\ UNCHANGED <<disk, cur, memory, next, history, limits>>

AcquireLink ==
    \/ /\ mount = "absent"
       /\ Work("a_link", "a_ready", "f_dir",
               mount' = "link" /\ UNCHANGED <<journal, child, lease>>)
    \/ /\ pc = "a_link" /\ mount # "absent" /\ NoFault /\ Go("f_dir")
       /\ UNCHANGED <<disk, cur, memory, next, history, limits>>

AcquireReady ==
    /\ pc = "a_ready"
    /\ \/ NoFault /\ Record("ready") /\ Answer(TRUE) /\ granted' = granted \cup {active}
       \/ Fault /\ Go("f_mount") /\ UNCHANGED <<journal, records, exit, granted>>
    /\ UNCHANGED <<child, grave, mount, cur, active, lease, released, interrupted, next, freed, limits>>

-----------------------------------------------------------------------------
(* What a failed Acquire takes back (the closure fail).                    *)

\* removeOwnedMount: only the link to this child.
FailMount ==
    /\ pc = "f_mount" /\ Go("f_dir")
    /\ \/ mount = "link" /\ mount' = "absent" /\ NoFault
       \/ mount # "link" /\ UNCHANGED mount /\ NoFault
       \/ Fault /\ UNCHANGED mount
    /\ UNCHANGED <<journal, child, grave, cur, memory, next, history, limits>>

\* The empty directory is made again; a child without a verified marker stays.
FailDir ==
    /\ pc = "f_dir" /\ Go(IF lease.owned THEN "x_check" ELSE "f_end")
    /\ \/ lease.existed /\ mount = "absent" /\ mount' = "dir" /\ NoFault
       \/ ~(lease.existed /\ mount = "absent") /\ UNCHANGED mount /\ NoFault
       \/ lease.existed /\ mount = "absent" /\ Fault /\ UNCHANGED mount
    /\ UNCHANGED <<journal, child, grave, cur, memory, next, history, limits>>

\* Bug: a failed acquire counts as cleaned up.
FailEndReleased ==
    /\ pc = "f_end" /\ active' = 0 /\ Answer(FALSE)
    /\ Record("released") /\ NoFault
    /\ UNCHANGED <<child, grave, mount, cur, lease, released, interrupted, next, granted, freed, limits>>

\* The journal of a failed acquire is quarantined, whatever was taken back.
FailEnd ==
    /\ pc = "f_end" /\ active' = 0 /\ Answer(FALSE)
    /\ \/ Record("quarantined") /\ NoFault
       \/ Fault /\ UNCHANGED journal
    /\ UNCHANGED <<child, grave, mount, cur, lease, released, interrupted, next, granted, freed, limits>>

-----------------------------------------------------------------------------
(* removeOwnedChild, for both: check the identity and the marker, rename   *)
(* to a quarantine name, check again, and only then delete.                *)
Releasing == cur.op # "acquire"
Abort == IF Releasing THEN "u_failed" ELSE "f_end"
Idle(at) == pc = at /\ UNCHANGED <<journal, mount, cur, memory, next, history, limits>>

RemoveCheck ==
    /\ Idle("x_check") /\ UNCHANGED <<child, grave>>
    /\ \/ child = "mine" /\ NoFault /\ Go("x_rename")
       \/ child # "mine" /\ NoFault /\ Go(Abort)
       \/ Fault /\ Go(Abort)

RemoveRename ==
    /\ Idle("x_rename")
    /\ \/ child # "none" /\ NoFault /\ grave' = child /\ child' = "none" /\ Go("x_again")
       \/ child = "none" /\ NoFault /\ Go(Abort) /\ UNCHANGED <<child, grave>>
       \/ Fault /\ Go(Abort) /\ UNCHANGED <<child, grave>>

\* Bug: what was renamed is not checked again.
RemoveUnchecked ==
    /\ Idle("x_again") /\ NoFault /\ Go("x_remove") /\ UNCHANGED <<child, grave>>

\* What has the identity but not the marker goes back, without replacing anything.
RemoveAgain ==
    /\ Idle("x_again")
    /\ \/ grave = "mine" /\ NoFault /\ Go("x_remove") /\ UNCHANGED <<child, grave>>
       \/ grave = "foreign" /\ NoFault /\ Go(Abort) /\ UNCHANGED <<child, grave>>
       \/ /\ grave = "bare" /\ NoFault /\ Go(Abort)
          /\ IF child = "none" THEN child' = grave /\ grave' = "none" ELSE UNCHANGED <<child, grave>>
       \/ /\ grave = "mine" /\ Fault /\ Go(Abort)
          /\ \/ IF child = "none" THEN child' = grave /\ grave' = "none" ELSE UNCHANGED <<child, grave>>
             \/ UNCHANGED <<child, grave>>

RemoveTree ==
    /\ Idle("x_remove") /\ UNCHANGED child
    /\ \/ NoFault /\ grave' = "none" /\ Go(IF Releasing THEN "u_note" ELSE "f_end")
       \/ Fault /\ Go(Abort) /\ grave' \in {"mine", "bare"}

-----------------------------------------------------------------------------
(* Release, shutdown and the end of the input.                             *)

\* A release of no lease or of another one, and of one already released.
ReleaseReply ==
    /\ \E l \in Leases : l # active /\ Reply("release", l \in released)
    /\ UNCHANGED <<disk, active, lease, released, interrupted, next, granted, freed, limits>> /\ NoFault

ShutdownReply ==
    /\ active = 0 /\ Reply("shutdown", TRUE)
    /\ UNCHANGED <<disk, active, lease, released, interrupted, next, granted, freed, limits>> /\ NoFault

EndOfInput ==
    /\ pc = "idle"
    /\ cur' = [op |-> "eof", id |-> 0]
    /\ IF active = 0 THEN Go("exited") /\ exit' = "zero" ELSE Go("u_begin") /\ UNCHANGED exit
    /\ UNCHANGED <<disk, memory, next, granted, freed, limits>> /\ NoFault

ReleaseRequest ==
    /\ active # 0 /\ (Request("release") \/ Request("shutdown")) /\ Go("u_begin")
    /\ UNCHANGED <<disk, memory, next, history, limits>> /\ NoFault

\* releaseActive
ReleaseBegin ==
    /\ pc = "u_begin"
    /\ \/ NoFault /\ Record("releasing") /\ Go(IF lease.released THEN "u_end" ELSE "u_unmount") /\ UNCHANGED <<records, exit>>
       \/ Fault /\ Answer(FALSE) /\ UNCHANGED journal
    /\ UNCHANGED <<child, grave, mount, cur, active, lease, released, interrupted, next, granted, freed, limits>>

\* The context of a request is that of main; at the end of the input it is a new one.
ReleaseUnmount ==
    \/ /\ cur.op = "eof" \/ ~interrupted
       /\ Work("u_unmount", "u_link", "u_failed", Record("unmounting") /\ UNCHANGED <<child, mount, lease>>)
    \/ /\ pc = "u_unmount" /\ cur.op # "eof" /\ interrupted /\ Go("u_failed")
       /\ UNCHANGED <<disk, cur, memory, next, history, limits>> /\ NoFault

ReleaseLink ==
    \/ mount = "link" /\ Work("u_link", "u_dir", "u_failed", mount' = "absent" /\ UNCHANGED <<journal, child, lease>>)
    \/ /\ pc = "u_link" /\ mount # "link" /\ Go("u_failed")
       /\ UNCHANGED <<disk, cur, memory, next, history, limits>> /\ NoFault

ReleaseDir ==
    \/ /\ mount = "absent" \/ ~lease.existed
       /\ Work("u_dir", "u_child", "u_failed",
               mount' = (IF lease.existed THEN "dir" ELSE mount) /\ UNCHANGED <<journal, child, lease>>)
    \/ /\ pc = "u_dir" /\ mount # "absent" /\ lease.existed /\ Go("u_failed")
       /\ UNCHANGED <<disk, cur, memory, next, history, limits>> /\ NoFault

\* The child is measured; one that is to be deleted must be the one that was acquired.
ReleaseChild ==
    \/ /\ IF lease.delete THEN child = "mine" ELSE child # "none"
       /\ Work("u_child", IF lease.delete THEN "x_check" ELSE "u_note", "u_failed", UNCHANGED <<journal, child, mount, lease>>)
    \/ /\ pc = "u_child" /\ (IF lease.delete THEN child # "mine" ELSE child = "none") /\ Go("u_failed")
       /\ UNCHANGED <<disk, cur, memory, next, history, limits>> /\ NoFault

\* The backend notes "released" itself, and only then is its lease over.
ReleaseNote ==
    Work("u_note", "u_end", "u_failed",
         Record("released") /\ lease' = [lease EXCEPT !.released = TRUE] /\ UNCHANGED <<child, mount>>)

\* Bug: a failed release ends the lease.
ReleaseFailedForgets ==
    /\ pc = "u_failed" /\ Answer(cur.op = "eof") /\ active' = 0
    /\ Record("quarantined") /\ NoFault
    /\ UNCHANGED <<child, grave, mount, cur, lease, released, interrupted, next, granted, freed, limits>>

\* The lease stays the active one, and a further request may try again.
ReleaseFailed ==
    /\ pc = "u_failed" /\ Answer(FALSE)
    /\ \/ Record("quarantined") /\ NoFault
       \/ Fault /\ UNCHANGED journal
    /\ UNCHANGED <<child, grave, mount, cur, active, lease, released, interrupted, next, granted, freed, limits>>

ReleaseEnd ==
    /\ pc = "u_end"
    /\ \/ /\ NoFault /\ Record("released") /\ Answer(TRUE)
          /\ active' = 0 /\ released' = released \cup {active} /\ freed' = freed \cup {active}
       \/ Fault /\ Answer(FALSE) /\ UNCHANGED <<journal, active, released, freed>>
    /\ UNCHANGED <<child, grave, mount, cur, lease, interrupted, next, granted, limits>>

-----------------------------------------------------------------------------
(* What comes from outside.                                                *)
Forget ==
    /\ active' = 0 /\ lease' = NoLease /\ records' = {} /\ released' = {} /\ interrupted' = FALSE

Start ==
    /\ pc \in {"down", "exited"} /\ processes < MaxProcesses /\ processes' = processes + 1
    /\ pc' = "idle" /\ cur' = [op |-> "none", id |-> 0] /\ Forget /\ granted' = {}
    /\ UNCHANGED <<disk, next, freed, exit, tampers, crashes>> /\ NoFault

\* The process dies, or it ends because its answer cannot be written or its
\* input cannot be read: it releases nothing.
Crash ==
    /\ pc \notin {"down", "exited"} /\ crashes < MaxCrashes /\ crashes' = crashes + 1
    /\ pc' = "down" /\ UNCHANGED cur /\ Forget
    /\ UNCHANGED <<disk, next, history, tampers, processes>> /\ NoFault

\* An interrupt cancels the context; the helper goes on reading its input.
Interrupt ==
    /\ pc \notin {"down", "exited"} /\ ~interrupted /\ interrupted' = TRUE
    /\ UNCHANGED <<disk, pc, cur, active, lease, records, released, next, history, limits>> /\ NoFault

\* Another program replaces the child or its marker once the helper knows its
\* identity, or what is at the mount path.
Tamper ==
    /\ tampers < MaxTampers /\ tampers' = tampers + 1
    /\ \/ child = "mine" /\ child' \in {"foreign", "bare"} /\ UNCHANGED mount
       \/ mount' \in {"foreign", "absent"} \ {mount} /\ UNCHANGED child
    /\ UNCHANGED <<journal, grave, pc, cur, memory, next, history, processes, crashes>> /\ NoFault

Init ==
    /\ journal = [l \in Leases |-> "none"] /\ child = "none" /\ grave = "none" /\ mount \in {"absent", "dir"}
    /\ pc = "down" /\ cur = [op |-> "none", id |-> 0]
    /\ active = 0 /\ lease = NoLease /\ records = {} /\ released = {} /\ interrupted = FALSE
    /\ next = 1 /\ granted = {} /\ freed = {} /\ exit = "none"
    /\ processes = 0 /\ faults = 0 /\ tampers = 0 /\ crashes = 0

AcquireStep ==
    \/ AcquireRefused \/ Acquire \/ AcquireJournal \/ AcquireBegin \/ AcquireCreate \/ AcquireClone
    \/ AcquireOwn \/ AcquireMounting \/ AcquireUnmake \/ AcquireLink \/ AcquireReady
    \/ FailMount \/ FailDir \/ FailEnd

RemoveStep == RemoveCheck \/ RemoveRename \/ RemoveAgain \/ RemoveTree

ReleaseStep ==
    \/ ReleaseReply \/ ShutdownReply \/ EndOfInput \/ ReleaseRequest \/ ReleaseBegin \/ ReleaseUnmount
    \/ ReleaseLink \/ ReleaseDir \/ ReleaseChild \/ ReleaseNote \/ ReleaseFailed \/ ReleaseEnd

Next == AcquireStep \/ RemoveStep \/ ReleaseStep \/ Start \/ Crash \/ Interrupt \/ Tamper

Spec == Init /\ [][Next]_vars

-----------------------------------------------------------------------------
(* Properties.                                                             *)

\* What another program has put in the place of the child or of the link is
\* never deleted: it stays where it is or lies at the quarantine name.  Only an
\* Acquire that found an empty directory at the mount path removes by the path
\* alone, and takes what has replaced that directory since.
ForeignIsPreserved ==
    [][tampers' = tampers =>
          /\ {child, grave} \cap {"foreign"} \subseteq {child', grave'}
          /\ mount = "foreign" /\ pc # "a_unmake" => mount' = "foreign"]_vars

\* What the helper has made is under a journal that is not released, so that
\* the next helper on the store stops at it, wherever this one has died: the
\* link, the quarantined tree, a child without its marker that nobody else has
\* touched, and a child that no release has left in its place.
NothingUnjournaled ==
    /\ mount = "link" \/ grave # "none" \/ (child = "bare" /\ tampers = 0) => Orphans # {}
    /\ child = "mine" /\ Orphans = {} => \E l \in Leases : journal[l] = "released"

\* A release that was answered OK has undone the lease, and a helper that exits
\* with zero has released every lease it handed out.
AnswerIsTrue ==
    /\ \A l \in freed : journal[l] = "released"
    /\ active = 0 /\ freed # {} /\ Orphans = {} => mount # "link" /\ grave = "none"
    /\ pc = "exited" /\ exit = "zero" => granted \subseteq freed
=============================================================================
